---- MODULE Spec2Model ----
(***************************************************************************)
(* A model of the Standard MIDI File parser of src/src/midi.ts: the        *)
(* MidiParser class (byte cursor, variable-length quantities, header,      *)
(* track event loop with running status and SysEx reassembly).             *)
(*                                                                         *)
(* The input buffer is a sequence of bytes, the cursor (this.offset) is    *)
(* 0-based as in the code, so the byte under the cursor is buf[offset+1].  *)
(* A read that can throw is an operator that returns a record              *)
(*   [ok, val, off, err, at]                                               *)
(* ok = TRUE: val is the value read and off the cursor after the read;     *)
(* ok = FALSE: err names the exception, off is the cursor when it was      *)
(* thrown and at is the offset the exception object carries (-1 when the   *)
(* exception is a plain Error, which carries none).                        *)
(***************************************************************************)
EXTENDS Integers, Sequences, FiniteSets, TLC

VARIABLES
    buf,            \* the bytes of the DataView (this.view)
    opts,           \* options.normalizeZeroVelocityNoteOn: <<>> when not given, else <<b>>
    pc,             \* position of parse(): "header", "track", "event", "done", "error", "vlq";
                    \* of the tempo functions: "tempo", "ticks"
    offset,         \* this.offset
    err,            \* the exception that ended the parse, "none" while there is none
    errAt,          \* the offset carried by that exception, -1 when it carries none
    errArg,         \* the value the message of that exception names, -1 when it names none
    format,         \* header field
    numTracks,      \* header field
    division,       \* header field
    tracks,         \* parse(): the tracks pushed so far, each [events |-> <<...>>]
    events,         \* parseTrack(): events of the track being parsed
    runningStatus,  \* parseTrack(): <<>> for null, else <<status byte>>
    pendingSysEx,   \* parseTrack(): <<>> for null, else <<payload bytes>>
    trackEnd,       \* parseTrack(): this.offset + trackLength
    result,         \* <<>> until parse() returns, then <<the MidiFile>>
    vlq,            \* <<>> until readVariableLengthQuantity is applied on its own, then <<its outcome>>
    chunks,         \* history: per parseTrack call, [start |-> offset of the chunk data, length |-> trackLength]
    hist,           \* history: per decoded event, where its bytes lie in buf
    source,         \* buildTempoMap(): the source argument, <<>> when not given
    tempoMap,       \* <<>> until buildTempoMap() returns, then <<its list of points>>
    tick,           \* ticksToMs(): the target tick
    ppq,            \* ticksToMs(): the resolution
    totalMs,        \* <<>> until ticksToMs() returns, then <<its outcome>>
    previous        \* <<>> until parseMidi() is called again on the same input, then
                    \* <<what its first call returned or threw>>

vars == <<buf, opts, pc, offset, err, errAt, errArg, format, numTracks, division,
          tracks, events, runningStatus, pendingSysEx, trackEnd, result, vlq,
          chunks, hist, source, tempoMap, tick, ppq, totalMs, previous>>

----------------------------------------------------------------------------
(* Bounds of the model *)

MaxItems == 3       \* byte groups that make up the track bodies of one input
MaxVlqBytes == 5    \* bytes of a buffer handed to readVariableLengthQuantity alone
MaxChunks == 2      \* track chunks that follow the header of one input
MaxMetaLen == 5     \* data bytes of the meta events of one input
MaxTempoEvents == 2 \* events of each track of a document handed to buildTempoMap
MaxMapLen == 3      \* points of a tempo map handed to ticksToMs
MaxNotes == 3       \* note events of a file of note events
MaxScanEvents == 3  \* events of the first track of a document with mixed events

----------------------------------------------------------------------------
(* Values *)

Null == <<>>
Some(x) == <<x>>

Ok(v, o) == [ok |-> TRUE, val |-> v, off |-> o, err |-> "none", at |-> -1, arg |-> -1]

\* throw new MidiParseError(msg, this.offset)
FailAt(e, o) == [ok |-> FALSE, val |-> 0, off |-> o, err |-> e, at |-> o, arg |-> -1]

\* throw new Error(msg) and the RangeError of DataView: no offset
FailPlain(e, o) == [ok |-> FALSE, val |-> 0, off |-> o, err |-> e, at |-> -1, arg |-> -1]

\* throw new Error(`msg ${a}`): no offset, the message names the value a
FailNaming(e, o, a) == [ok |-> FALSE, val |-> 0, off |-> o, err |-> e, at |-> -1, arg |-> a]

----------------------------------------------------------------------------
(* The byte cursor *)

ensureAvailable(off, n) == n <= Len(buf) - off

readUint8(off) ==
    IF ensureAvailable(off, 1)
    THEN Ok(buf[off + 1], off + 1)
    ELSE FailAt("UnexpectedEOF", off)

readUint16(off) ==
    IF ensureAvailable(off, 2)
    THEN Ok(buf[off + 1] * 256 + buf[off + 2], off + 2)
    ELSE FailAt("UnexpectedEOF", off)

readUint32(off) ==
    IF ensureAvailable(off, 4)
    THEN Ok(((buf[off + 1] * 256 + buf[off + 2]) * 256 + buf[off + 3]) * 256
               + buf[off + 4], off + 4)
    ELSE FailAt("UnexpectedEOF", off)

\* variant: no ensureAvailable, the view is cut at the end of the buffer
readBytes_Clipped(off, length) ==
    Ok(SubSeq(buf, off + 1, IF off + length <= Len(buf) THEN off + length ELSE Len(buf)),
       off + length)

readBytes(off, length) ==
    IF ensureAvailable(off, length)
    THEN Ok(SubSeq(buf, off + 1, off + length), off + length)
    ELSE FailAt("UnexpectedEOF", off)

\* readString(4) = readFourCC(): the four bytes as character codes
readString(off) == readBytes(off, 4)

\* DataView.getUint8(this.offset) without ensureAvailable: a RangeError
\* when the offset is outside the view
getUint8(off) ==
    IF off >= 0 /\ off < Len(buf)
    THEN Ok(buf[off + 1], off)
    ELSE FailPlain("RangeError", off)

----------------------------------------------------------------------------
(* Variable-length quantity *)

\* variants of the loop bound: one iteration fewer, one more
VlqMaxBytes_Three == 4 - 1
VlqMaxBytes_Five == 4 + 1

VlqMaxBytes == 4

RECURSIVE VlqLoop(_, _, _)
VlqLoop(off, value, i) ==
    IF i >= VlqMaxBytes
    THEN FailAt("VlqTooLong", off)
    ELSE LET r == readUint8(off)
         IN  IF ~r.ok THEN r
             ELSE LET v == value * 128 + (r.val % 128)   \* (value << 7) | (byte & 0x7f)
                  IN  IF r.val < 128                      \* (byte & 0x80) === 0
                      THEN Ok(v, r.off)
                      ELSE VlqLoop(r.off, v, i + 1)

readVariableLengthQuantity(off) == VlqLoop(off, 0, 0)

----------------------------------------------------------------------------
(* Event decoders.  A decoder returns Ok([ev |-> event, pending |-> p], off) *)
(* where p is the __pendingSyx value the event carries back to parseTrack   *)
(* (Null for the events that carry none).                                  *)

\* variant: the option defaults to false
normalizeZeroVelocityNoteOn_DefaultOff == IF opts = Null THEN FALSE ELSE opts[1]

\* this.opts.normalizeZeroVelocityNoteOn = options.normalizeZeroVelocityNoteOn ?? true
normalizeZeroVelocityNoteOn == IF opts = Null THEN TRUE ELSE opts[1]

\* two consecutive readUint8() calls, in evaluation order
readTwo(off) ==
    LET a == readUint8(off)
    IN  IF ~a.ok THEN a
        ELSE LET b == readUint8(a.off)
             IN  IF ~b.ok THEN b ELSE Ok(<<a.val, b.val>>, b.off)

Decoded(ev, off) == Ok([ev |-> ev, pending |-> Null], off)

parseChannelEvent(off, delta, statusByte) ==
    LET channel   == statusByte % 16          \* statusByte & 0x0f
        eventType == statusByte \div 16       \* (statusByte & 0xf0) >> 4
        two == readTwo(off)
        one == readUint8(off)
    IN  CASE eventType = 8 ->
               IF ~two.ok THEN two
               ELSE Decoded([type |-> "channel", subtype |-> "noteOff", delta |-> delta,
                             channel |-> channel, note |-> two.val[1],
                             velocity |-> two.val[2]], two.off)
          [] eventType = 9 ->
               IF ~two.ok THEN two
               ELSE IF normalizeZeroVelocityNoteOn /\ two.val[2] = 0
               THEN Decoded([type |-> "channel", subtype |-> "noteOff", delta |-> delta,
                             channel |-> channel, note |-> two.val[1],
                             velocity |-> 64], two.off)
               ELSE Decoded([type |-> "channel", subtype |-> "noteOn", delta |-> delta,
                             channel |-> channel, note |-> two.val[1],
                             velocity |-> two.val[2]], two.off)
          [] eventType = 10 ->
               IF ~two.ok THEN two
               ELSE Decoded([type |-> "channel", subtype |-> "polyAftertouch", delta |-> delta,
                             channel |-> channel, note |-> two.val[1],
                             pressure |-> two.val[2]], two.off)
          [] eventType = 11 ->
               IF ~two.ok THEN two
               ELSE Decoded([type |-> "channel", subtype |-> "controlChange", delta |-> delta,
                             channel |-> channel, controller |-> two.val[1],
                             value |-> two.val[2]], two.off)
          [] eventType = 12 ->
               IF ~one.ok THEN one
               ELSE Decoded([type |-> "channel", subtype |-> "programChange", delta |-> delta,
                             channel |-> channel, program |-> one.val], one.off)
          [] eventType = 13 ->
               IF ~one.ok THEN one
               ELSE Decoded([type |-> "channel", subtype |-> "channelPressure", delta |-> delta,
                             channel |-> channel, pressure |-> one.val], one.off)
          [] eventType = 14 ->
               IF ~two.ok THEN two
               ELSE Decoded([type |-> "channel", subtype |-> "pitchBend", delta |-> delta,
                             channel |-> channel,
                             value |-> (two.val[2] * 128 + two.val[1]) - 8192], two.off)
          [] OTHER -> FailNaming("UnknownChannelEventType", off, eventType)

\* 1 << n on 32-bit integers: the shift count is taken modulo 32
shiftLeftOne(n) ==
    LET s == n % 32
    IN  IF s = 31 THEN (-2147483647) - 1 ELSE 2 ^ s

\* variant: the lengths are tested as lower limits
metaConvenience_AtLeast(metaType, length, data) ==
    IF metaType >= 1 /\ metaType <= 7 THEN <<>>
    ELSE IF metaType = 81 /\ length >= 3
    THEN [tempoUsPerQuarter |-> (data[1] * 256 + data[2]) * 256 + data[3]]
    ELSE IF metaType = 88 /\ length >= 4
    THEN [timeSig |-> [num |-> data[1], den |-> shiftLeftOne(data[2]),
                       metronome |-> data[3], thirtyseconds |-> data[4]]]
    ELSE IF metaType = 89 /\ length >= 2
    THEN [keySig |-> [sf |-> IF data[1] > 127 THEN data[1] - 256 ELSE data[1],
                      minor |-> (data[2] = 1)]]
    ELSE IF metaType = 47
    THEN [endOfTrack |-> TRUE]
    ELSE <<>>

\* the convenience fields parseMetaEvent adds (the text field of types
\* 0x01..0x07 is not modelled)
metaConvenience(metaType, length, data) ==
    IF metaType >= 1 /\ metaType <= 7 THEN <<>>
    ELSE IF metaType = 81 /\ length = 3
    THEN [tempoUsPerQuarter |-> (data[1] * 256 + data[2]) * 256 + data[3]]
    ELSE IF metaType = 88 /\ length = 4
    THEN [timeSig |-> [num |-> data[1], den |-> shiftLeftOne(data[2]),
                       metronome |-> data[3], thirtyseconds |-> data[4]]]
    ELSE IF metaType = 89 /\ length = 2
    THEN [keySig |-> [sf |-> IF data[1] > 127 THEN data[1] - 256 ELSE data[1],
                      minor |-> (data[2] = 1)]]
    ELSE IF metaType = 47
    THEN [endOfTrack |-> TRUE]
    ELSE <<>>

parseMetaEvent(off, delta) ==
    LET t == readUint8(off)
    IN  IF ~t.ok THEN t
        ELSE LET l == readVariableLengthQuantity(t.off)
             IN  IF ~l.ok THEN l
                 ELSE LET d == readBytes(l.off, l.val)
                      IN  IF ~d.ok THEN d
                          ELSE Decoded([type |-> "meta", delta |-> delta,
                                        metaType |-> t.val, data |-> d.val]
                                         @@ metaConvenience(t.val, l.val, d.val),
                                       d.off)

\* variant: a 0xF7 event never merges the pending bytes
parseSysExEvent_NoMerge(off, delta, statusByte, pending) ==
    LET l == readVariableLengthQuantity(off)
    IN  IF ~l.ok THEN l
        ELSE LET p == readBytes(l.off, l.val)
             IN  IF ~p.ok THEN p
                 ELSE Ok([ev |-> [type |-> "sysex", delta |-> delta,
                                  kind |-> statusByte, data |-> p.val],
                          pending |-> Some(p.val)], p.off)

parseSysExEvent(off, delta, statusByte, pending) ==
    LET l == readVariableLengthQuantity(off)
    IN  IF ~l.ok THEN l
        ELSE LET p == readBytes(l.off, l.val)
             IN  IF ~p.ok THEN p
                 ELSE LET payload  == p.val
                          combined == IF statusByte = 247 /\ pending # Null
                                      THEN pending[1] \o payload
                                      ELSE payload
                      IN  Ok([ev |-> [type |-> "sysex", delta |-> delta,
                                      kind |-> statusByte, data |-> combined],
                              pending |-> Some(combined)], p.off)

\* variant: every status byte 0xF0..0xF7 is taken as a SysEx event
parseEvent_SysExRange(off, delta, statusByte, pending) ==
    IF statusByte >= 128 /\ statusByte <= 239
    THEN parseChannelEvent(off, delta, statusByte)
    ELSE IF statusByte = 255
    THEN parseMetaEvent(off, delta)
    ELSE IF statusByte >= 240 /\ statusByte <= 247
    THEN parseSysExEvent(off, delta, statusByte, pending)
    ELSE FailNaming("UnsupportedEventStatus", off, statusByte)

parseEvent(off, delta, statusByte, pending) ==
    IF statusByte >= 128 /\ statusByte <= 239
    THEN parseChannelEvent(off, delta, statusByte)
    ELSE IF statusByte = 255
    THEN parseMetaEvent(off, delta)
    ELSE IF statusByte = 240 \/ statusByte = 247
    THEN parseSysExEvent(off, delta, statusByte, pending)
    ELSE FailNaming("UnsupportedEventStatus", off, statusByte)

----------------------------------------------------------------------------
(* Header *)

MThd == <<77, 84, 104, 100>>
MTrk == <<77, 84, 114, 107>>

\* variant: the header length is tested before the tag
parseHeader_LengthFirst(off) ==
    LET tag == readString(off)
    IN  IF ~tag.ok THEN tag
        ELSE LET hl == readUint32(tag.off)
             IN  IF ~hl.ok THEN hl
                 ELSE IF hl.val # 6 THEN FailPlain("BadHeaderLength", hl.off)
                 ELSE IF tag.val # MThd THEN FailPlain("BadMThd", tag.off)
                 ELSE LET f == readUint16(hl.off)
                      IN  IF ~f.ok THEN f
                          ELSE IF f.val \notin {0, 1, 2}
                          THEN FailNaming("UnsupportedFormat", f.off, f.val)
                          ELSE LET n == readUint16(f.off)
                               IN  IF ~n.ok THEN n
                                   ELSE LET d == readUint16(n.off)
                                        IN  IF ~d.ok THEN d
                                            ELSE Ok([format |-> f.val, numTracks |-> n.val,
                                                     division |-> d.val], d.off)

parseHeader(off) ==
    LET tag == readString(off)
    IN  IF ~tag.ok THEN tag
        ELSE IF tag.val # MThd THEN FailPlain("BadMThd", tag.off)
        ELSE LET hl == readUint32(tag.off)
             IN  IF ~hl.ok THEN hl
                 ELSE IF hl.val # 6 THEN FailPlain("BadHeaderLength", hl.off)
                 ELSE LET f == readUint16(hl.off)
                      IN  IF ~f.ok THEN f
                          ELSE IF f.val \notin {0, 1, 2}
                          THEN FailNaming("UnsupportedFormat", f.off, f.val)
                          ELSE LET n == readUint16(f.off)
                               IN  IF ~n.ok THEN n
                                   ELSE LET d == readUint16(n.off)
                                        IN  IF ~d.ok THEN d
                                            ELSE Ok([format |-> f.val, numTracks |-> n.val,
                                                     division |-> d.val], d.off)

\* variant: ticksPerQuarter is set for an SMPTE division as well
divisionTiming_Both(d) ==
    IF d >= 32768
    THEN LET fpsRaw == (d \div 256) % 256
             fps    == IF fpsRaw > 127 THEN fpsRaw - 256 ELSE fpsRaw
         IN  [smpte |-> [fps |-> IF fps < 0 THEN -fps ELSE fps,
                         ticksPerFrame |-> d % 256],
              ticksPerQuarter |-> d]
    ELSE [ticksPerQuarter |-> d]

\* parse(): the timing fields of the result, from the division word
divisionTiming(d) ==
    IF d >= 32768                                  \* division & 0x8000
    THEN LET fpsRaw == (d \div 256) % 256
             fps    == IF fpsRaw > 127 THEN fpsRaw - 256 ELSE fpsRaw
         IN  [smpte |-> [fps |-> IF fps < 0 THEN -fps ELSE fps,
                         ticksPerFrame |-> d % 256]]
    ELSE [ticksPerQuarter |-> d]

----------------------------------------------------------------------------
(* parseTrack *)

\* variant: the locals kept as fields that outlive the parseTrack call
trackLocals_Stale ==
    [events |-> <<>>, runningStatus |-> runningStatus, pendingSysEx |-> pendingSysEx]

\* the locals of parseTrack as it enters the event loop
trackLocals == [events |-> <<>>, runningStatus |-> Null, pendingSysEx |-> Null]

\* variant: the loop also runs with the cursor on the chunk end
inTrack_Inclusive(off, end) == off <= end

\* the condition of the event loop
inTrack(off, end) == off < end

\* variant: the peeked data byte is consumed as if it were a status byte
resolveStatus_Consume(peek, rs, off) ==
    IF peek < 128
    THEN IF rs = Null
         THEN FailPlain("RunningStatusWithoutContext", off)
         ELSE Ok([status |-> rs[1], rs |-> rs], off + 1)
    ELSE Ok([status |-> peek, rs |-> IF peek < 240 THEN Some(peek) ELSE rs], off + 1)

\* variant: no test for a missing running status, the data byte is dispatched
resolveStatus_NoCheck(peek, rs, off) ==
    IF peek < 128
    THEN Ok([status |-> IF rs = Null THEN peek ELSE rs[1], rs |-> rs], off)
    ELSE Ok([status |-> peek, rs |-> IF peek < 240 THEN Some(peek) ELSE rs], off + 1)

\* variant: every status byte is stored as running status
resolveStatus_AnyStatus(peek, rs, off) ==
    IF peek < 128
    THEN IF rs = Null
         THEN FailPlain("RunningStatusWithoutContext", off)
         ELSE Ok([status |-> rs[1], rs |-> rs], off)
    ELSE Ok([status |-> peek, rs |-> Some(peek)], off + 1)

\* the status byte an event is decoded with: Ok([status, running, rs], off)
\* with rs the running status after it and off the cursor after it
resolveStatus(peek, rs, off) ==
    IF peek < 128
    THEN IF rs = Null
         THEN FailPlain("RunningStatusWithoutContext", off)
         ELSE Ok([status |-> rs[1], rs |-> rs], off)
    ELSE Ok([status |-> peek, rs |-> IF peek < 240 THEN Some(peek) ELSE rs], off + 1)

\* variant: no event breaks the loop
isEndOfTrack_Never(ev) == FALSE

\* the event that breaks the loop
isEndOfTrack(ev) == ev.type = "meta" /\ ev.metaType = 47

\* variant: the pending bytes survive an event that is not a SysEx event
parseTrackStep_KeepPending(off, rs, pending) ==
    LET d == readVariableLengthQuantity(off)
    IN  IF ~d.ok THEN d
        ELSE LET pk == getUint8(d.off)
             IN  IF ~pk.ok THEN pk
                 ELSE LET st == resolveStatus(pk.val, rs, d.off)
                      IN  IF ~st.ok THEN st
                          ELSE LET e == parseEvent(st.off, d.val, st.val.status, pending)
                               IN  IF ~e.ok THEN e
                                   ELSE Ok([ev |-> e.val.ev,
                                            pending |-> IF e.val.ev.type = "sysex"
                                                        THEN e.val.pending ELSE pending,
                                            rs |-> st.val.rs,
                                            statusAt |-> d.off], e.off)

\* variant: the running status follows the returned record, so a Note-On
\* returned as noteOff leaves a Note-Off status behind
parseTrackStep_StatusOfEvent(off, rs, pending) ==
    LET d == readVariableLengthQuantity(off)
    IN  IF ~d.ok THEN d
        ELSE LET pk == getUint8(d.off)
             IN  IF ~pk.ok THEN pk
                 ELSE LET st == resolveStatus(pk.val, rs, d.off)
                      IN  IF ~st.ok THEN st
                          ELSE LET e == parseEvent(st.off, d.val, st.val.status, pending)
                               IN  IF ~e.ok THEN e
                                   ELSE Ok([ev |-> e.val.ev,
                                            pending |-> IF e.val.ev.type = "sysex"
                                                        THEN e.val.pending ELSE Null,
                                            rs |-> IF /\ e.val.ev.type = "channel"
                                                      /\ e.val.ev.subtype = "noteOff"
                                                   THEN Some(128 + e.val.ev.channel)
                                                   ELSE st.val.rs,
                                            statusAt |-> d.off], e.off)

\* one iteration of the loop body up to events.push(ev):
\* Ok([ev, pending, rs, statusAt], off)
parseTrackStep(off, rs, pending) ==
    LET d == readVariableLengthQuantity(off)
    IN  IF ~d.ok THEN d
        ELSE LET pk == getUint8(d.off)
             IN  IF ~pk.ok THEN pk
                 ELSE LET st == resolveStatus(pk.val, rs, d.off)
                      IN  IF ~st.ok THEN st
                          ELSE LET e == parseEvent(st.off, d.val, st.val.status, pending)
                               IN  IF ~e.ok THEN e
                                   ELSE Ok([ev |-> e.val.ev,
                                            pending |-> IF e.val.ev.type = "sysex"
                                                        THEN e.val.pending ELSE Null,
                                            rs |-> st.val.rs,
                                            statusAt |-> d.off], e.off)

----------------------------------------------------------------------------
(* Actions *)

\* variant: the loop of parse() runs once more
moreTracks_Inclusive(i, n) == i <= n

\* parse(): the condition i < numTracks of the track loop
moreTracks(i, n) == i < n

Throw(r) ==
    /\ pc' = "error"
    /\ err' = r.err
    /\ errAt' = r.at
    /\ errArg' = r.arg
    /\ offset' = r.off

\* parse(): parseHeader and the division
ParseHeader ==
    /\ pc = "header"
    /\ LET h == parseHeader(offset)
       IN  IF ~h.ok
           THEN /\ Throw(h)
                /\ UNCHANGED <<format, numTracks, division>>
           ELSE /\ pc' = "track"
                /\ offset' = h.off
                /\ format' = h.val.format
                /\ numTracks' = h.val.numTracks
                /\ division' = h.val.division
                /\ UNCHANGED <<err, errAt, errArg>>
    /\ UNCHANGED <<buf, opts, previous, source, tempoMap, tick, ppq, totalMs, tracks, events, runningStatus, pendingSysEx, trackEnd,
                   result, vlq, chunks, hist>>

\* parseTrack(): the chunk tag and length, up to the first test of the loop
ParseTrackBegin ==
    /\ pc = "track"
    /\ moreTracks(Len(tracks), numTracks)
    /\ LET tag == readString(offset)
           len == readUint32(tag.off)
       IN  IF ~tag.ok
           THEN /\ Throw(tag)
                /\ UNCHANGED <<events, runningStatus, pendingSysEx, trackEnd, chunks>>
           ELSE IF tag.val # MTrk
           THEN /\ Throw(FailPlain("BadMTrk", tag.off))
                /\ UNCHANGED <<events, runningStatus, pendingSysEx, trackEnd, chunks>>
           ELSE IF ~len.ok
           THEN /\ Throw(len)
                /\ UNCHANGED <<events, runningStatus, pendingSysEx, trackEnd, chunks>>
           ELSE /\ pc' = "event"
                /\ offset' = len.off
                /\ trackEnd' = len.off + len.val
                /\ events' = trackLocals.events
                /\ runningStatus' = trackLocals.runningStatus
                /\ pendingSysEx' = trackLocals.pendingSysEx
                /\ chunks' = Append(chunks, [start |-> len.off, length |-> len.val])
                /\ UNCHANGED <<err, errAt, errArg>>
    /\ UNCHANGED <<buf, opts, previous, source, tempoMap, tick, ppq, totalMs, format, numTracks, division, tracks, result, vlq, hist>>

\* parseTrack(): one iteration of the event loop; an End-of-Track event
\* breaks the loop and parseTrack returns to the loop of parse()
ParseTrackEvent ==
    /\ pc = "event"
    /\ inTrack(offset, trackEnd)
    /\ LET r == parseTrackStep(offset, runningStatus, pendingSysEx)
       IN  IF ~r.ok
           THEN /\ Throw(r)
                /\ UNCHANGED <<events, runningStatus, pendingSysEx, tracks, hist>>
           ELSE /\ offset' = r.off
                /\ events' = Append(events, r.val.ev)
                /\ runningStatus' = r.val.rs
                /\ pendingSysEx' = r.val.pending
                /\ hist' = Append(hist, [track |-> Len(tracks) + 1,
                                         index |-> Len(events) + 1,
                                         deltaAt |-> offset,
                                         statusAt |-> r.val.statusAt,
                                         endAt |-> r.off])
                /\ IF isEndOfTrack(r.val.ev)
                   THEN /\ tracks' = Append(tracks, [events |-> events'])
                        /\ pc' = "track"
                   ELSE /\ UNCHANGED tracks
                        /\ pc' = "event"
                /\ UNCHANGED <<err, errAt, errArg>>
    /\ UNCHANGED <<buf, opts, previous, source, tempoMap, tick, ppq, totalMs, format, numTracks, division, trackEnd, result, vlq, chunks>>

\* parseTrack(): the loop condition fails, the track is returned
ParseTrackReturn ==
    /\ pc = "event"
    /\ ~inTrack(offset, trackEnd)
    /\ tracks' = Append(tracks, [events |-> events])
    /\ pc' = "track"
    /\ UNCHANGED <<buf, opts, previous, source, tempoMap, tick, ppq, totalMs, offset, err, errAt, errArg, format, numTracks, division, events,
                   runningStatus, pendingSysEx, trackEnd, result, vlq, chunks, hist>>

\* parse(): all tracks are read, the MidiFile is returned
ParseReturn ==
    /\ pc = "track"
    /\ ~moreTracks(Len(tracks), numTracks)
    /\ result' = Some([format |-> format, tracks |-> tracks] @@ divisionTiming(division))
    /\ pc' = "done"
    /\ UNCHANGED <<buf, opts, previous, source, tempoMap, tick, ppq, totalMs, offset, err, errAt, errArg, format, numTracks, division, tracks,
                   events, runningStatus, pendingSysEx, trackEnd, vlq, chunks, hist>>

\* what a call of parseMidi hands to its caller: the MidiFile, or the
\* exception with its offset and the value its message names
outcome == [result |-> result, err |-> err, errAt |-> errAt, errArg |-> errArg]

\* variant: the parser of the first call is used again
initialOffset_Kept == offset

\* private offset: number = 0
initialOffset == 0

\* parseMidi(input, opts) called once more with the same arguments, after
\* its first call has returned or thrown: a new MidiParser, and parse()
\* from its start with new locals
ParseMidiAgain ==
    /\ pc \in {"done", "error"}
    /\ tempoMap = Null
    /\ vlq = Null
    /\ previous = Null
    /\ previous' = Some(outcome)
    /\ pc' = "header"
    /\ offset' = initialOffset
    /\ err' = "none"
    /\ errAt' = -1
    /\ errArg' = -1
    /\ format' = -1
    /\ numTracks' = -1
    /\ division' = -1
    /\ tracks' = <<>>
    /\ events' = <<>>
    /\ runningStatus' = Null
    /\ pendingSysEx' = Null
    /\ trackEnd' = -1
    /\ result' = Null
    /\ chunks' = <<>>
    /\ hist' = <<>>
    /\ UNCHANGED <<buf, opts, vlq, source, tempoMap, tick, ppq, totalMs>>

\* readVariableLengthQuantity() applied at the start of a buffer
ReadVlq ==
    /\ pc = "vlq"
    /\ LET r == readVariableLengthQuantity(offset)
       IN  /\ vlq' = Some(r)
           /\ offset' = r.off
           /\ pc' = IF r.ok THEN "done" ELSE "error"
           /\ err' = r.err
           /\ errAt' = r.at
           /\ errArg' = r.arg
    /\ UNCHANGED <<buf, opts, previous, source, tempoMap, tick, ppq, totalMs, format, numTracks, division, tracks, events,
                   runningStatus, pendingSysEx, trackEnd, result, chunks, hist>>

----------------------------------------------------------------------------
(* Tempo map *)

\* a JavaScript number or undefined taken as a condition
truthy(ev, field) == field \in DOMAIN ev /\ ev[field] # 0

\* variant: only the deltas of the recorded tempo events are added up
RECURSIVE pushFromTrack_TempoDeltasOnly(_, _, _)
pushFromTrack_TempoDeltasOnly(points, evs, abs) ==
    IF evs = <<>> THEN points
    ELSE LET ev == Head(evs)
             at == abs + ev.delta
         IN  IF ev.type = "meta" /\ ev.metaType = 81 /\ truthy(ev, "tempoUsPerQuarter")
             THEN pushFromTrack_TempoDeltasOnly(
                      Append(points, [tick |-> at, usPerQuarter |-> ev.tempoUsPerQuarter]),
                      Tail(evs), at)
             ELSE pushFromTrack_TempoDeltasOnly(points, Tail(evs), abs)

\* pushFromTrack: the points of the tempo events of a track, behind the
\* points collected so far
RECURSIVE pushFromTrack(_, _, _)
pushFromTrack(points, evs, abs) ==
    IF evs = <<>> THEN points
    ELSE LET ev == Head(evs)
             at == abs + ev.delta
         IN  pushFromTrack(
                 IF ev.type = "meta" /\ ev.metaType = 81 /\ truthy(ev, "tempoUsPerQuarter")
                 THEN Append(points, [tick |-> at, usPerQuarter |-> ev.tempoUsPerQuarter])
                 ELSE points,
                 Tail(evs), at)

RECURSIVE pushFromTracks(_, _)
pushFromTracks(points, ts) ==
    IF ts = <<>> THEN points
    ELSE pushFromTracks(pushFromTrack(points, Head(ts).events, 0), Tail(ts))

firstTrack(midi) == IF Len(midi.tracks) > 0 THEN <<midi.tracks[1]>> ELSE <<>>

\* variant: the default source is "track0"
defaultSource_Track0 == "track0"

\* source: TempoSource = "all"
defaultSource == "all"

\* variant: a format-1 file is scanned like a format-2 file
scannedTracks_Format1First(midi, src) ==
    IF midi.format = 0 THEN midi.tracks ELSE firstTrack(midi)

\* the tracks buildTempoMap scans, by format and source
scannedTracks(midi, src) ==
    IF midi.format = 1
    THEN IF src = "track0" THEN firstTrack(midi)
         ELSE IF src = "all" \/ src = "merge" THEN midi.tracks
         ELSE <<>>
    ELSE IF midi.format = 0 THEN midi.tracks
    ELSE IF midi.format = 2 THEN firstTrack(midi)
    ELSE <<>>

\* a point put into a list sorted by tick, behind the points of its tick
insertByTick(sorted, p) ==
    LET before == SelectSeq(sorted, LAMBDA q : q.tick <= p.tick)
        after  == SelectSeq(sorted, LAMBDA q : q.tick > p.tick)
    IN  before \o <<p>> \o after

\* points.sort((a, b) => a.tick - b.tick): a stable sort
RECURSIVE sortByTick(_, _)
sortByTick(sorted, points) ==
    IF points = <<>> THEN sorted
    ELSE sortByTick(insertByTick(sorted, Head(points)), Tail(points))

\* variant: the first point of a tick is kept
mergeSameTick_FirstWins(out, points) ==
    LET firsts == { i \in 1..Len(points) : i = 1 \/ points[i - 1].tick # points[i].tick }
        f[i \in 0..Len(points)] ==
            IF i = 0 THEN out
            ELSE IF i \in firsts THEN Append(f[i - 1], points[i]) ELSE f[i - 1]
    IN  f[Len(points)]

\* the merge loop: a point of the tick of the last one replaces its value
RECURSIVE mergeSameTick(_, _)
mergeSameTick(out, points) ==
    IF points = <<>> THEN out
    ELSE LET p == Head(points)
         IN  IF out # <<>> /\ out[Len(out)].tick = p.tick
             THEN mergeSameTick([out EXCEPT ![Len(out)].usPerQuarter = p.usPerQuarter],
                                Tail(points))
             ELSE mergeSameTick(Append(out, p), Tail(points))

DefaultTempo == [tick |-> 0, usPerQuarter |-> 500000]

\* variant: the default goes in front of an empty map only
withDefault_OnlyEmpty(out) == IF out = <<>> THEN <<DefaultTempo>> ELSE out

\* out.unshift({tick: 0, usPerQuarter: 500000}) when no point lies at tick 0
withDefault(out) ==
    IF out = <<>> \/ out[1].tick # 0 THEN <<DefaultTempo>> \o out ELSE out

buildTempoMap(midi, src) ==
    withDefault(mergeSameTick(<<>>,
        sortByTick(<<>>, pushFromTracks(<<>>, scannedTracks(midi, src)))))

\* variant: the points are the events themselves, so the merge loop writes
\* the tempo that wins into the events of the document
BuildTempoMap_WritesEvents ==
    /\ pc = "tempo"
    /\ tempoMap = Null
    /\ LET m == buildTempoMap(result[1],
                              IF source = Null THEN defaultSource ELSE source[1])
           written(ev) == IF truthy(ev, "tempoUsPerQuarter")
                          THEN [ev EXCEPT !.tempoUsPerQuarter = m[Len(m)].usPerQuarter]
                          ELSE ev
       IN  /\ tempoMap' = Some(m)
           /\ result' = Some([result[1] EXCEPT !.tracks =
                   [t \in 1..Len(result[1].tracks) |->
                       [events |-> [i \in 1..Len(result[1].tracks[t].events) |->
                                       written(result[1].tracks[t].events[i])]]]])
    /\ UNCHANGED <<buf, opts, previous, pc, offset, err, errAt, errArg, format, numTracks,
                   division, tracks, events, runningStatus, pendingSysEx, trackEnd, vlq,
                   chunks, hist, source, tick, ppq, totalMs>>

\* buildTempoMap(midi, source) applied to a document
BuildTempoMap ==
    /\ pc = "tempo"
    /\ tempoMap = Null
    /\ tempoMap' = Some(buildTempoMap(result[1],
                                      IF source = Null THEN defaultSource ELSE source[1]))
    /\ UNCHANGED <<buf, opts, previous, pc, offset, err, errAt, errArg, format, numTracks, division,
                   tracks, events, runningStatus, pendingSysEx, trackEnd, result, vlq,
                   chunks, hist, source, tick, ppq, totalMs>>

----------------------------------------------------------------------------
(* ticksToMs *)

Max(a, b) == IF a >= b THEN a ELSE b
Min(a, b) == IF a <= b THEN a ELSE b

\* variant: the segment of a point ends at the next point, whatever the target
segEnd_NoClamp(m, i, t) == IF i + 1 <= Len(m) THEN m[i + 1].tick ELSE t

\* segEnd = next ? Math.min(next.tick, tick) : tick
segEnd(m, i, t) == IF i + 1 <= Len(m) THEN Min(m[i + 1].tick, t) ELSE t

\* the loop of ticksToMs_PPQ from index i on. totalMs is a sum of quotients
\* by ppq * 1000 in the code; the model keeps it exact, as the numerator
\* of that fraction.
RECURSIVE ticksLoop(_, _, _, _, _)
ticksLoop(m, t, i, total, cursorTick) ==
    IF i > Len(m) THEN total
    ELSE LET segStart == Max(cursorTick, m[i].tick)
             end      == segEnd(m, i, t)
             add      == end > segStart /\ segStart < t
             total2   == IF add THEN total + (end - segStart) * m[i].usPerQuarter ELSE total
             cursor2  == IF add THEN end ELSE cursorTick
         IN  IF cursor2 >= t THEN total2
             ELSE ticksLoop(m, t, i + 1, total2, cursor2)

\* variant: the tempo map is looked at before ppq
ticksToMs_PPQ_MapFirst(t, m, p) ==
    IF Len(m) = 0 THEN FailPlain("EmptyTempoMap", offset)
    ELSE IF p <= 0 THEN FailPlain("InvalidPpq", offset)
    ELSE Ok(ticksLoop(m, t, 1, 0, 0), offset)

ticksToMs_PPQ(t, m, p) ==
    IF p <= 0 THEN FailPlain("InvalidPpq", offset)
    ELSE IF Len(m) = 0 THEN FailPlain("EmptyTempoMap", offset)
    ELSE Ok(ticksLoop(m, t, 1, 0, 0), offset)

\* ticksToMs(tick, tempoMap, ppq) with a number as third argument
TicksToMs ==
    /\ pc = "ticks"
    /\ LET r == ticksToMs_PPQ(tick, tempoMap[1], ppq)
       IN  IF ~r.ok
           THEN /\ Throw(r)
                /\ UNCHANGED totalMs
           ELSE /\ totalMs' = Some(r.val)
                /\ pc' = "done"
                /\ UNCHANGED <<offset, err, errAt, errArg>>
    /\ UNCHANGED <<buf, opts, previous, format, numTracks, division,
                   tracks, events, runningStatus, pendingSysEx, trackEnd, result, vlq,
                   chunks, hist, source, tempoMap, tick, ppq>>

----------------------------------------------------------------------------
(* Inputs *)

\* byte groups the track bodies are built from: whole events and the
\* pieces needed to cut or stretch them
Items == {
    <<0, 144, 48, 64>>,        \* 00 90 30 40  Note-On ch 0
    <<0, 49, 0>>,              \* 00 31 00     delta and two data bytes, no status
    <<0, 193, 5>>,             \* 00 C1 05     Program Change ch 1
    <<0, 255, 47, 0>>,         \* 00 FF 2F 00  End of Track
    <<0, 255, 127, 1, 65>>,    \* 00 FF 7F 01 41  meta 0x7F with one byte
    <<0, 240, 1, 67>>,         \* 00 F0 01 43  SysEx start
    <<0, 247, 1, 18>>,         \* 00 F7 01 12  SysEx continuation
    <<128, 128, 128, 128>>,    \* 80 80 80 80  four VLQ continuation bytes
    <<129, 0>>,                \* 81 00        two-byte VLQ 128
    <<0, 255, 127>>,           \* 00 FF 7F     meta 0x7F up to its length
    <<0, 240>>,                \* 00 F0        SysEx start up to its length
    <<0>> }                    \* 00

RECURSIVE Flatten(_)
Flatten(ss) == IF ss = <<>> THEN <<>> ELSE Head(ss) \o Flatten(Tail(ss))

U16(n) == <<(n \div 256) % 256, n % 256>>
U32(n) == <<(n \div 16777216) % 256, (n \div 65536) % 256, (n \div 256) % 256, n % 256>>

HeaderBytes(fmt, n, div) == MThd \o U32(6) \o U16(fmt) \o U16(n) \o U16(div)
Chunk(declared, body) == MTrk \o U32(declared) \o body

\* the lengths a one-track file declares for a body: none, one short, exact, one long
DeclaredLengths(body) ==
    {0, Len(body), Len(body) + 1} \cup (IF Len(body) > 0 THEN {Len(body) - 1} ELSE {})

\* a one-track file (format 0, 480 PPQ) that declares the given length
OneTrackFile(ss, declared) ==
    HeaderBytes(0, 1, 480) \o Chunk(declared, Flatten(ss))

\* a two-track file (format 1, 480 PPQ): the first k groups make up the
\* first track, the rest the second, both with their exact lengths
TwoTrackFile(ss, k) ==
    HeaderBytes(1, 2, 480)
        \o Chunk(Len(Flatten(SubSeq(ss, 1, k))), Flatten(SubSeq(ss, 1, k)))
        \o Chunk(Len(Flatten(SubSeq(ss, k + 1, Len(ss)))), Flatten(SubSeq(ss, k + 1, Len(ss))))

OptionValues == {Null, Some(FALSE)}

\* the fields and locals of a parser that has read nothing
Idle ==
    /\ offset = 0
    /\ err = "none"
    /\ errAt = -1
    /\ errArg = -1
    /\ format = -1
    /\ numTracks = -1
    /\ division = -1
    /\ tracks = <<>>
    /\ events = <<>>
    /\ runningStatus = Null
    /\ pendingSysEx = Null
    /\ trackEnd = -1
    /\ vlq = Null
    /\ chunks = <<>>
    /\ hist = <<>>

Start(kind) ==
    /\ pc = kind
    /\ Idle
    /\ result = Null
    /\ source = Null
    /\ tempoMap = Null
    /\ tick = 0
    /\ ppq = 0
    /\ totalMs = Null
    /\ previous = Null

Init ==
    /\ \E n \in 0..MaxItems : \E ss \in [1..n -> Items] :
          \/ \E declared \in DeclaredLengths(Flatten(ss)) : buf = OneTrackFile(ss, declared)
          \/ \E k \in 0..n : buf = TwoTrackFile(ss, k)
    /\ opts \in OptionValues
    /\ Start("header")

Next ==
    \/ ParseHeader
    \/ ParseTrackBegin
    \/ ParseTrackEvent
    \/ ParseTrackReturn
    \/ ParseReturn

Spec == Init /\ [][Next]_vars

\* whole files with every part of the header and of the chunk list varied
BadTag == <<77, 84, 104, 101>>          \* "MThe"
BadTrackTag == <<77, 84, 114, 108>>     \* "MTrl"

HeaderTags == {MThd, BadTag}
HeaderLengths == {6, 8}
Formats == {0, 1, 2, 3}

\* division words: PPQ 0, 480 and 0x7FFF; SMPTE 0x8000, 0xE250 (30 fps, 80),
\* 0xE728 (25 fps, 40) and 0xFFFF
Divisions == {0, 480, 32767, 32768, 57936, 59176, 65535}

FileBytes(tag, hl, fmt, n, div, rest) ==
    tag \o U32(hl) \o U16(fmt) \o U16(n) \o U16(div) \o rest

EndOfTrackBytes == <<0, 255, 47, 0>>

\* the track bodies of the files whose chunk list is varied
TrackBodies == {<<>>, EndOfTrackBytes, <<0, 144, 48, 64>>}

TaggedChunk(tag, body) == tag \o U32(Len(body)) \o body

TaggedChunks == { TaggedChunk(t, b) : t \in {MTrk, BadTrackTag}, b \in TrackBodies }

\* status bytes at the edges of the ranges parseEvent tells apart
StatusBytes == {128, 239, 240, 241, 246, 247, 248, 254, 255}

\* what follows the status byte
Tails == {<<>>, <<0>>, <<47, 0>>, <<1, 67>>}

\* a track with every kind of event: Note-On, running status, tempo,
\* SysEx start and continuation, End of Track
FullBody ==
    <<0, 144, 48, 64,  0, 49, 0,  0, 255, 81, 3, 7, 161, 32,
      0, 240, 1, 67,  129, 0, 247, 1, 18>> \o EndOfTrackBytes

FullFile == FileBytes(MThd, 6, 1, 1, 480, Chunk(Len(FullBody), FullBody))

InitFile ==
    /\ \/ \E tag \in HeaderTags, hl \in HeaderLengths, fmt \in Formats,
             n \in 0..1, div \in Divisions :
             buf = FileBytes(tag, hl, fmt, n, div, Chunk(4, EndOfTrackBytes))
       \/ \E declared \in 0..(MaxChunks + 1), m \in 0..MaxChunks :
             \E cs \in [1..m -> TaggedChunks] :
                 buf = FileBytes(MThd, 6, 1, declared, 480, Flatten(cs))
       \/ \E s \in StatusBytes, tail \in Tails :
             buf = FileBytes(MThd, 6, 0, 1, 480,
                             Chunk(2 + Len(tail), <<0, s>> \o tail))
       \/ \E cut \in 0..Len(FullFile) : buf = SubSeq(FullFile, 1, cut)
    /\ opts = Null
    /\ Start("header")

SpecFile == InitFile /\ [][Next]_vars

\* one-track files that hold one channel or meta event and End of Track
ChannelStatuses == {128, 144, 159, 163, 176, 193, 210, 224, 239}
DataBytes == {0, 1, 64, 127, 128, 255}
Deltas == {0, 5}

\* status bytes of the messages with one data byte: Program Change, Channel Pressure
OneDataByte(s) == s \div 16 \in {12, 13}

ChannelEventBytes == 
    { <<d, s, a>> : d \in Deltas, s \in {x \in ChannelStatuses : OneDataByte(x)},
                    a \in DataBytes }
    \cup { <<d, s, a, b>> : d \in Deltas, s \in {x \in ChannelStatuses : ~OneDataByte(x)},
                            a \in DataBytes, b \in DataBytes }

\* the meta types with a convenience field that depends on the length:
\* Set Tempo, Time Signature, Key Signature
SizedMetaTypes == {81, 88, 89}

MetaData == {<<7, 161, 32, 8, 24, 1, 0>>, <<255, 1, 0, 0, 0, 0, 0>>, <<4, 31, 24, 8, 0, 0, 0>>}

MetaEventBytes ==
    { <<0, 255, t, n>> \o SubSeq(data, 1, n) :
          t \in SizedMetaTypes, n \in 0..MaxMetaLen, data \in MetaData }

EventFile(ev) ==
    FileBytes(MThd, 6, 0, 1, 480, Chunk(Len(ev) + 4, ev \o EndOfTrackBytes))

AllOptionValues == {Null, Some(FALSE), Some(TRUE)}

\* the same without End of Track: the declared length ends the track
BareEventFile(ev) == FileBytes(MThd, 6, 0, 1, 480, Chunk(Len(ev), ev))

InitEvent ==
    /\ \/ \E ev \in ChannelEventBytes \cup MetaEventBytes : buf = EventFile(ev)
       \/ \E ev \in MetaEventBytes : buf = BareEventFile(ev)
    /\ opts \in AllOptionValues
    /\ Start("header")

SpecEvent == InitEvent /\ [][Next]_vars

\* one-track files of Note-On and Note-Off events, with a status byte of
\* their own or under running status, with velocity 0 or not; with and
\* without End of Track
NoteItems == {
    <<0, 144, 48, 0>>,         \* 00 90 30 00  Note-On, velocity 0
    <<0, 145, 48, 64>>,        \* 00 91 30 40  Note-On ch 1, velocity 64
    <<0, 128, 48, 0>>,         \* 00 80 30 00  Note-Off, velocity 0
    <<0, 50, 0>>,              \* 00 32 00     running status, velocity 0
    <<5, 50, 96>> }            \* 05 32 60     running status, velocity 96

InitNotes ==
    /\ \E n \in 0..MaxNotes : \E ss \in [1..n -> NoteItems] :
          \/ buf = EventFile(Flatten(ss))
          \/ buf = BareEventFile(Flatten(ss))
    /\ opts \in AllOptionValues
    /\ Start("header")

SpecNotes == InitNotes /\ [][Next]_vars

\* the same files, each parsed twice
InitTwice == InitFile \/ InitEvent

NextTwice == Next \/ ParseMidiAgain

SpecTwice == InitTwice /\ [][NextTwice]_vars

\* parse() has neither returned nor thrown
Running == pc \in {"header", "track", "event"}

\* a step of the running parse, as pc and offset show it: every action of
\* Next changes one of the two, and one of them is enabled while the parse
\* runs
ParseStep ==
    /\ Running
    /\ pc' \in {"header", "track", "event", "done", "error"}
    /\ offset' \in 0..Len(buf)

\* the same files parsed once, by code that runs on until it returns or
\* throws: parse() is synchronous and nothing suspends it
SpecRun == InitTwice /\ [][Next]_vars /\ WF_<<pc, offset>>(ParseStep)

\* documents handed to buildTempoMap: Set Tempo events at delta 0 and 480,
\* one with the value 0, and a meta event 0x51 without the tempo field
SetTempo(d, us) ==
    [type |-> "meta", delta |-> d, metaType |-> 81, data |-> <<>>,
     tempoUsPerQuarter |-> us]

TempoEvents ==
    { SetTempo(0, 400000), SetTempo(0, 500000), SetTempo(480, 400000), SetTempo(0, 0),
      [type |-> "meta", delta |-> 480, metaType |-> 81, data |-> <<7, 161>>] }

TempoTracks ==
    { [events |-> evs] : evs \in UNION { [1..n -> TempoEvents] : n \in 0..MaxTempoEvents } }

\* a document without tracks, a single track, track 0 and a further track
TempoTrackCounts == 0..2

TempoSources == {Null, Some("track0"), Some("all"), Some("merge")}

InitTempo ==
    /\ buf = <<>>
    /\ opts = Null
    /\ pc = "tempo"
    /\ Idle
    /\ previous = Null
    /\ tempoMap = Null
    /\ tick = 0
    /\ ppq = 0
    /\ totalMs = Null
    /\ \E fmt \in {0, 1, 2}, n \in TempoTrackCounts : \E ts \in [1..n -> TempoTracks] :
          result = Some([format |-> fmt, tracks |-> ts, ticksPerQuarter |-> 480])
    /\ source \in TempoSources

NextTempo == BuildTempoMap

SpecTempo == InitTempo /\ [][NextTempo]_vars

\* documents whose tempo events lie between other events: a Note-On, Set
\* Tempo events, one with the value 0 and one without the tempo field, each
\* with a delta of its own; alone or followed by a second track
NoteOnAt(d) ==
    [type |-> "channel", subtype |-> "noteOn", delta |-> d, channel |-> 0,
     note |-> 60, velocity |-> 80]

ScanEvents ==
    { NoteOnAt(240), SetTempo(0, 400000), SetTempo(480, 600000), SetTempo(120, 0),
      [type |-> "meta", delta |-> 60, metaType |-> 81, data |-> <<7, 161>>] }

FollowingTracks == { <<>>, <<[events |-> <<NoteOnAt(240), SetTempo(240, 300000)>>]>> }

InitScan ==
    /\ buf = <<>>
    /\ opts = Null
    /\ pc = "tempo"
    /\ Idle
    /\ previous = Null
    /\ tempoMap = Null
    /\ tick = 0
    /\ ppq = 0
    /\ totalMs = Null
    /\ \E fmt \in {0, 1}, n \in 0..MaxScanEvents, rest \in FollowingTracks :
          \E evs \in [1..n -> ScanEvents] :
              result = Some([format |-> fmt, tracks |-> <<[events |-> evs]>> \o rest,
                             ticksPerQuarter |-> 480])
    /\ source = Null

SpecScan == InitScan /\ [][NextTempo]_vars

\* tempo maps handed to ticksToMs: sorted by tick, not always from tick 0
MapTicks == {0, 1, 480, 960}
MapTempos == {400000, 500000}
TargetTicks == {-480, 0, 1, 480, 481, 960}
Resolutions == {-1, 0, 1, 480}

TempoPoints == [tick : MapTicks, usPerQuarter : MapTempos]

SortedByTick(m) == \A i \in 1..(Len(m) - 1) : m[i].tick <= m[i + 1].tick

InitTicks ==
    /\ buf = <<>>
    /\ opts = Null
    /\ pc = "ticks"
    /\ Idle
    /\ previous = Null
    /\ result = Null
    /\ source = Null
    /\ totalMs = Null
    /\ \E n \in 0..MaxMapLen : \E m \in [1..n -> TempoPoints] :
          /\ SortedByTick(m)
          /\ tempoMap = Some(m)
    /\ tick \in TargetTicks
    /\ ppq \in Resolutions

NextTicks == TicksToMs

SpecTicks == InitTicks /\ [][NextTicks]_vars

\* both timing functions, each on its inputs
InitTiming == InitScan \/ InitTicks

NextTiming == BuildTempoMap \/ TicksToMs

SpecTiming == InitTiming /\ [][NextTiming]_vars

\* bytes of the buffers readVariableLengthQuantity is applied to alone
VlqBytes == {0, 1, 127, 128, 129, 255}

InitVlq ==
    /\ \E n \in 0..MaxVlqBytes : buf \in [1..n -> VlqBytes]
    /\ opts = Null
    /\ Start("vlq")

NextVlq == ReadVlq

SpecVlq == InitVlq /\ [][NextVlq]_vars

----------------------------------------------------------------------------
(* Reading the history *)

\* the byte at a 0-based offset of the buffer
ByteAt(o) == buf[o + 1]

\* the event a history record is about, in the finished tracks or the current one
EventOf(h) ==
    IF h.track <= Len(tracks) THEN tracks[h.track].events[h.index] ELSE events[h.index]

\* the event took its status from running status: a data byte at its status position
IsRunning(h) == ByteAt(h.statusAt) < 128

IsChannelStatus(b) == b >= 128 /\ b <= 239

\* the history records before the k-th, of the same track, that read a channel status byte
ChannelStatusBefore(k) ==
    { j \in 1..(k - 1) : /\ hist[j].track = hist[k].track
                         /\ IsChannelStatus(ByteAt(hist[j].statusAt)) }

SetMax(S) == CHOOSE m \in S : \A x \in S : x <= m

LatestChannelStatus(k) == ByteAt(hist[SetMax(ChannelStatusBefore(k))].statusAt)

\* the records of the track being parsed that read a channel status byte
ChannelStatusInCurrentTrack ==
    { j \in 1..Len(hist) : /\ hist[j].track = Len(tracks) + 1
                           /\ IsChannelStatus(ByteAt(hist[j].statusAt)) }

SubtypeOfType(t) ==
    CASE t = 8 -> "noteOff"
      [] t = 9 -> "noteOn"
      [] t = 10 -> "polyAftertouch"
      [] t = 11 -> "controlChange"
      [] t = 12 -> "programChange"
      [] t = 13 -> "channelPressure"
      [] t = 14 -> "pitchBend"

DataBytesOfType(t) == IF t \in {12, 13} THEN 1 ELSE 2

\* the field of a channel event that holds its first data byte
FirstData(ev) ==
    CASE ev.subtype \in {"noteOff", "noteOn", "polyAftertouch"} -> ev.note
      [] ev.subtype = "controlChange" -> ev.controller
      [] ev.subtype = "programChange" -> ev.program
      [] ev.subtype = "channelPressure" -> ev.pressure
      [] ev.subtype = "pitchBend" -> (ev.value + 8192) % 128

\* ev is a channel event of the message type and channel of status byte s,
\* a Note-On status with velocity byte 0 being returned as noteOff when the
\* normalisation option is in effect
DecodedWithStatus(ev, s, h) ==
    /\ ev.type = "channel"
    /\ ev.channel = s % 16
    /\ \/ ev.subtype = SubtypeOfType(s \div 16)
       \/ /\ s \div 16 = 9
          /\ normalizeZeroVelocityNoteOn
          /\ ByteAt(h.statusAt + 1) = 0
          /\ ev.subtype = "noteOff"

EndOfTrackEvent(ev) == ev.type = "meta" /\ ev.metaType = 47

\* the loop is about to decode an event whose status position holds a data byte
DataByteAtStatusPosition ==
    /\ pc = "event"
    /\ offset < trackEnd
    /\ LET d == readVariableLengthQuantity(offset)
       IN  d.ok /\ d.off < Len(buf) /\ ByteAt(d.off) < 128

----------------------------------------------------------------------------
(* Claims *)

\* C1: an event whose status position holds a data byte (< 0x80), after a
\* channel status byte was read earlier in the same track, is a channel event
\* of the message type and channel of the most recent such status byte; the
\* peeked byte is the event's first data byte and no status byte is consumed
\* (the event ends at the status position plus its data bytes).
C1_RunningStatus ==
    \A k \in 1..Len(hist) :
        (IsRunning(hist[k]) /\ ChannelStatusBefore(k) # {}) =>
            LET h  == hist[k]
                ev == EventOf(h)
                s  == LatestChannelStatus(k)
            IN  /\ DecodedWithStatus(ev, s, h)
                /\ FirstData(ev) = ByteAt(h.statusAt)
                /\ h.endAt = h.statusAt + DataBytesOfType(s \div 16)

\* witness of C1: a running-status event was decoded after the status of
\* another event of the track
C1_Witness ==
    \E k \in 1..Len(hist) :
        /\ IsRunning(hist[k])
        /\ ChannelStatusBefore(k) # {}
        /\ EventOf(hist[k]).type = "channel"

\* C2: a data byte at the status position while no channel status byte was
\* read yet in the current track ends the parse with the running-status-
\* without-context error, and a failed parse returns no document.
C2_NoContext ==
    /\ [][(DataByteAtStatusPosition /\ ChannelStatusInCurrentTrack = {})
            => (pc' = "error" /\ err' = "RunningStatusWithoutContext" /\ result' = Null)]_vars
    /\ [](pc = "error" => result = Null)

\* witness of C2: the parse of a one-track file ended with that error
C2_Witness ==
    /\ pc = "error"
    /\ err = "RunningStatusWithoutContext"
    /\ tracks = <<>>
    /\ ChannelStatusInCurrentTrack = {}

\* C3: running status and the pending SysEx buffer are none at the start of
\* every track: in a track after the first, a data byte at the status
\* position before any channel status byte of that track fails with running-
\* status-without-context whatever the earlier tracks established, and an
\* 0xF7 event that is first in its track reports only its own payload.
C3_TrackScoped ==
    /\ [][(DataByteAtStatusPosition /\ Len(tracks) >= 1 /\ ChannelStatusInCurrentTrack = {})
            => (pc' = "error" /\ err' = "RunningStatusWithoutContext")]_vars
    /\ [][(pc = "track" /\ pc' = "event") => (runningStatus' = Null /\ pendingSysEx' = Null)]_vars
    /\ [](\A k \in 1..Len(hist) :
            (hist[k].index = 1 /\ ByteAt(hist[k].statusAt) = 247) =>
                LET h == hist[k]
                    n == readVariableLengthQuantity(h.statusAt + 1).val
                IN  EventOf(h).data = SubSeq(buf, h.endAt - n + 1, h.endAt))

\* witness of C3: the second track failed on a data byte although the first
\* track had read a channel status byte
C3_Witness ==
    /\ pc = "error"
    /\ err = "RunningStatusWithoutContext"
    /\ Len(tracks) = 1
    /\ \E j \in 1..Len(hist) : hist[j].track = 1 /\ IsChannelStatus(ByteAt(hist[j].statusAt))

C5_EndOfTrackIsLast ==
    /\ [](\A t \in 1..Len(tracks) : \A i \in 1..(Len(tracks[t].events) - 1) :
            ~EndOfTrackEvent(tracks[t].events[i]))
    /\ [](\A i \in 1..(Len(events) - 1) : ~EndOfTrackEvent(events[i]))
    /\ [][(/\ pc = "event"
           /\ Len(hist') = Len(hist) + 1
           /\ EndOfTrackEvent(events'[Len(events')]))
            => (/\ pc' = "track"
                /\ err' = "none"
                /\ tracks' = Append(tracks, [events |-> events']))]_vars

\* witness of C5: a document was returned for a track ended by End-of-Track
\* with bytes left before its declared end, which lies beyond the buffer
C5_Witness ==
    \E k \in 1..Len(hist) :
        /\ pc = "done"
        /\ EndOfTrackEvent(EventOf(hist[k]))
        /\ hist[k].endAt < Len(buf)
        /\ chunks[hist[k].track].start + chunks[hist[k].track].length > Len(buf)

\* the end of the chunk of track t as its header declares it
DeclaredEnd(t) == chunks[t].start + chunks[t].length

ValidVlq(k) ==
    /\ k <= Len(buf)
    /\ \A i \in 1..(k - 1) : buf[i] >= 128
    /\ buf[k] < 128

\* the integer of the low 7 bits of the bytes, most significant group first
RECURSIVE GroupsValue(_)
GroupsValue(bytes) ==
    IF bytes = <<>> THEN 0
    ELSE GroupsValue(SubSeq(bytes, 1, Len(bytes) - 1)) * 128 + (bytes[Len(bytes)] % 128)

\* C8: a VLQ of k bytes, 1 <= k <= 4, decodes to the integer of its 7-bit
\* groups, most significant first, consumes exactly k bytes and lies in
\* 0..0x0FFFFFFF; a leading 0x80 byte changes nothing of the value (0x80
\* 0x81 0x00 decodes to 128 as 0x81 0x00 does).
C8_VlqDecode ==
    vlq # Null =>
        \A k \in 1..4 :
            ValidVlq(k) =>
                /\ vlq[1].ok
                /\ vlq[1].val = GroupsValue(SubSeq(buf, 1, k))
                /\ vlq[1].off = k
                /\ vlq[1].val >= 0 /\ vlq[1].val <= 268435455
                /\ (k >= 2 /\ buf[1] = 128) => vlq[1].val = GroupsValue(SubSeq(buf, 2, k))
                /\ (SubSeq(buf, 1, k) = <<128, 129, 0>>) => vlq[1].val = 128

\* witness of C8: the four-byte maximum was decoded
C8_Witness ==
    /\ vlq # Null
    /\ ValidVlq(4)
    /\ SubSeq(buf, 1, 4) = <<255, 255, 255, 127>>
    /\ vlq[1].ok
    /\ vlq[1].val = 268435455

\* the four bytes from 0-based offset o on all have the continuation bit
FourContinuation(o) ==
    /\ o + 4 <= Len(buf)
    /\ \A i \in 1..4 : buf[o + i] >= 128

\* the event the loop is about to decode has a delta time, a meta length
\* or a SysEx length whose first four bytes all have the continuation bit
VlqNeedsFifthByte ==
    /\ pc = "event"
    /\ offset < trackEnd
    /\ \/ FourContinuation(offset)
       \/ LET d == readVariableLengthQuantity(offset)
          IN  /\ d.ok
              /\ d.off < Len(buf)
              /\ \/ ByteAt(d.off) = 255 /\ d.off + 2 <= Len(buf) /\ FourContinuation(d.off + 2)
                 \/ ByteAt(d.off) \in {240, 247} /\ FourContinuation(d.off + 1)

LongDeltaThenEndOfTrack ==
    /\ Len(buf) >= 30
    /\ SubSeq(buf, 23, 30) = <<128, 128, 128, 128, 0, 255, 47, 0>>
    /\ ((buf[19] * 256 + buf[20]) * 256 + buf[21]) * 256 + buf[22] >= 8

----------------------------------------------------------------------------
(* System Exclusive reassembly *)

\* the status byte a history record read
StatusOf(h) == ByteAt(h.statusAt)

\* the payload bytes of a SysEx event, as they lie in the buffer: the bytes
\* between its length VLQ and its end
PayloadOf(h) ==
    LET l == readVariableLengthQuantity(h.statusAt + 1)
    IN  SubSeq(buf, l.off + 1, h.endAt)

\* the 0xF0 event that starts the run the k-th event continues: a 0xF0 of the
\* same track followed by 0xF7 events only, up to and including the k-th
SysExRunStart(k) ==
    { j \in 1..(k - 1) : /\ hist[j].track = hist[k].track
                         /\ StatusOf(hist[j]) = 240
                         /\ \A m \in (j + 1)..k : StatusOf(hist[m]) = 247 }

\* the payloads of the events j..k, concatenated in order
RECURSIVE PayloadsOf(_, _)
PayloadsOf(j, k) ==
    IF j > k THEN <<>> ELSE PayloadOf(hist[j]) \o PayloadsOf(j + 1, k)

\* the event right before the k-th in its track is a channel or a meta event
\* (or there is none)
AfterNonSysEx(k) ==
    \/ hist[k].index = 1
    \/ /\ k > 1
       /\ hist[k - 1].track = hist[k].track
       /\ EventOf(hist[k - 1]).type \in {"channel", "meta"}

\* C11: in a run that starts with a 0xF0 event and goes on with 0xF7 events,
\* the data of every 0xF7 event is the payload of the 0xF0 followed by the
\* payloads of all 0xF7 events up to and including itself, in order; the data
\* of a 0xF0 event is its own payload, whatever came before it.
C11_SysExReassembly ==
    \A k \in 1..Len(hist) :
        /\ StatusOf(hist[k]) = 240 => EventOf(hist[k]).data = PayloadOf(hist[k])
        /\ \A j \in SysExRunStart(k) :
               /\ EventOf(hist[k]).type = "sysex"
               /\ EventOf(hist[k]).kind = 247
               /\ EventOf(hist[k]).data = PayloadsOf(j, k)

\* the second 0xF7 after a 0xF0 carries the three payloads
C11_Witness ==
    \E k \in 3..Len(hist) :
        /\ (k - 2) \in SysExRunStart(k)
        /\ EventOf(hist[k]).data = <<67, 18, 18>>

\* C12: a 0xF7 event whose immediately preceding event in the track is a
\* channel or a meta event, or which is the first event of its track, reports
\* exactly its own payload, also when a 0xF0 event occurred earlier.
C12_NonSysExClearsPending ==
    \A k \in 1..Len(hist) :
        (StatusOf(hist[k]) = 247 /\ AfterNonSysEx(k)) =>
            EventOf(hist[k]).data = PayloadOf(hist[k])

\* a 0xF0, then a channel or meta event, then a 0xF7 with its own payload only
C12_Witness ==
    \E k \in 3..Len(hist) :
        /\ StatusOf(hist[k]) = 247
        /\ hist[k].index = 3
        /\ StatusOf(hist[k - 2]) = 240
        /\ EventOf(hist[k - 1]).type \in {"channel", "meta"}
        /\ EventOf(hist[k]).data = <<18>>

\* C13: a 0xF7 event continues only a message in progress, one started by a
\* 0xF0 event; when none is in progress, also when the preceding event was a
\* standalone 0xF7, its data is exactly its own payload.
C13_EscapeIsNotContinued ==
    \A k \in 1..Len(hist) :
        (StatusOf(hist[k]) = 247 /\ SysExRunStart(k) = {}) =>
            EventOf(hist[k]).data = PayloadOf(hist[k])

----------------------------------------------------------------------------
(* Header and chunk list *)

\* the fields of the file as they lie in the buffer
TagAt(o) == SubSeq(buf, o + 1, o + 4)
U16At(o) == buf[o + 1] * 256 + buf[o + 2]
U32At(o) == ((buf[o + 1] * 256 + buf[o + 2]) * 256 + buf[o + 3]) * 256 + buf[o + 4]

HeaderParsed == pc # "header"

\* the outcome of the header, field by field in the order of the file
HeaderVerdict ==
    IF Len(buf) < 4 THEN "UnexpectedEOF"
    ELSE IF TagAt(0) # MThd THEN "BadMThd"
    ELSE IF Len(buf) < 8 THEN "UnexpectedEOF"
    ELSE IF U32At(4) # 6 THEN "BadHeaderLength"
    ELSE IF Len(buf) < 10 THEN "UnexpectedEOF"
    ELSE IF U16At(8) \notin {0, 1, 2} THEN "UnsupportedFormat"
    ELSE IF Len(buf) < 14 THEN "UnexpectedEOF"
    ELSE "none"

HeaderErrors == {"BadMThd", "BadHeaderLength", "UnsupportedFormat"}

\* C14: a header whose tag is not 'MThd' is rejected with bad magic, one
\* whose length is not 6 with bad header length, one whose format is outside
\* {0,1,2} with unsupported format naming the value; the tests run in that
\* order, so the first failing one decides the error; and a track chunk whose
\* tag is not 'MTrk' is rejected with the bad track tag error.
C14_HeaderRejections ==
    /\ [](HeaderParsed =>
            /\ HeaderVerdict # "none" => pc = "error" /\ err = HeaderVerdict
            /\ err \in HeaderErrors => err = HeaderVerdict
            /\ err = "UnsupportedFormat" => errArg = U16At(8)
            /\ err \in {"BadMThd", "BadHeaderLength"} => errArg = -1)
    /\ [][(/\ pc = "track"
           /\ moreTracks(Len(tracks), numTracks)
           /\ ensureAvailable(offset, 4))
          => IF TagAt(offset) # MTrk
             THEN pc' = "error" /\ err' = "BadMTrk"
             ELSE err' # "BadMTrk"]_vars

\* a header with all three faults is rejected for its tag
C14_Witness ==
    /\ pc = "error"
    /\ err = "BadMThd"
    /\ Len(buf) >= 10
    /\ U32At(4) # 6
    /\ U16At(8) = 3

----------------------------------------------------------------------------
(* Timing of the result *)

\* the division word of the header, as it lies in the buffer
DivisionWord == U16At(12)

Has(r, field) == field \in DOMAIN r

\* C15: a returned file carries exactly one timing mode: ticksPerQuarter and
\* no smpte when bit 15 of the division word is clear, smpte and no
\* ticksPerQuarter when it is set.
C15_ExactlyOneTimingMode ==
    result # Null =>
        IF DivisionWord < 32768
        THEN Has(result[1], "ticksPerQuarter") /\ ~Has(result[1], "smpte")
        ELSE Has(result[1], "smpte") /\ ~Has(result[1], "ticksPerQuarter")

\* the division word 0xE728 was returned as SMPTE timing, 25 fps, 40 ticks
C15_Witness ==
    /\ result # Null
    /\ DivisionWord = 59176
    /\ Has(result[1], "smpte")
    /\ result[1].smpte = [fps |-> 25, ticksPerFrame |-> 40]

\* C16: every returned file carries valid timing values, whatever the
\* 16-bit division word: ticksPerQuarter > 0 under PPQ timing; fps in
\* {24, 25, 29, 30} and ticksPerFrame > 0 under SMPTE timing.
C16_ValidTiming ==
    result # Null =>
        /\ Has(result[1], "ticksPerQuarter") => result[1].ticksPerQuarter > 0
        /\ Has(result[1], "smpte") =>
              /\ result[1].smpte.fps \in {24, 25, 29, 30}
              /\ result[1].smpte.ticksPerFrame > 0

----------------------------------------------------------------------------
(* Track count *)

\* the track count of the header, as it lies in the buffer
DeclaredTracks == U16At(10)

\* C17: a returned file has as many tracks as the header declares, each one
\* read from an 'MTrk' chunk of the buffer; when the buffer ends before the
\* declared number of chunks the parse fails; and no chunk is read beyond the
\* declared number, whatever bytes follow.
C17_TrackCount ==
    /\ [](/\ result # Null =>
                /\ Len(result[1].tracks) = DeclaredTracks
                /\ Len(chunks) = DeclaredTracks
                /\ \A i \in 1..Len(chunks) : TagAt(chunks[i].start - 8) = MTrk
          /\ HeaderParsed /\ pc # "error" => Len(chunks) <= DeclaredTracks)
    /\ [][(/\ pc = "track"
           /\ Len(tracks) < DeclaredTracks
           /\ ~ensureAvailable(offset, 8))
          => pc' = "error"]_vars
    /\ [][pc = "done" => UNCHANGED vars]_vars

\* one track was declared and returned, and a further 'MTrk' chunk lies
\* unread behind it
C17_Witness ==
    /\ result # Null
    /\ DeclaredTracks = 1
    /\ Len(result[1].tracks) = 1
    /\ ensureAvailable(offset, 8)
    /\ TagAt(offset) = MTrk

----------------------------------------------------------------------------
(* Dispatch on the status byte *)

UnsupportedStatus == (241..246) \cup (248..254)

\* the loop is about to decode an event, its delta time is readable and the
\* byte b lies at the status position
StatusByteAhead(b) ==
    /\ pc = "event"
    /\ inTrack(offset, trackEnd)
    /\ LET d == readVariableLengthQuantity(offset)
       IN  d.ok /\ d.off < Len(buf) /\ ByteAt(d.off) = b

\* the type of event a status byte is dispatched to
TypeOfStatus(b) ==
    IF b >= 128 /\ b <= 239 THEN "channel"
    ELSE IF b = 255 THEN "meta"
    ELSE "sysex"

\* C18: a status byte in 0xF1-0xF6 or 0xF8-0xFE makes the parse fail with the
\* unsupported event status error naming that byte; only 0x80-0xEF, 0xF0,
\* 0xF7 and 0xFF are dispatched to a decoder.
C18_UnsupportedStatus ==
    /\ [][\A b \in UnsupportedStatus :
            StatusByteAhead(b) =>
                /\ pc' = "error"
                /\ err' = "UnsupportedEventStatus"
                /\ errArg' = b
                /\ hist' = hist]_vars
    /\ [](\A k \in 1..Len(hist) :
            StatusOf(hist[k]) >= 128 =>
                /\ StatusOf(hist[k]) \in (128..239) \cup {240, 247, 255}
                /\ EventOf(hist[k]).type = TypeOfStatus(StatusOf(hist[k])))
    /\ [](err = "UnsupportedEventStatus" => errArg \in UnsupportedStatus)

\* the status byte 0xF8 was rejected by name
C18_Witness ==
    /\ pc = "error"
    /\ err = "UnsupportedEventStatus"
    /\ errArg = 248
    /\ ByteAt(offset - 1) = 248

----------------------------------------------------------------------------
(* Errors *)

\* the loop is about to decode an event whose delta time is readable and
\* ends where the buffer ends: the status byte is missing
StatusByteMissing ==
    /\ pc = "event"
    /\ inTrack(offset, trackEnd)
    /\ LET d == readVariableLengthQuantity(offset)
       IN  d.ok /\ ~ensureAvailable(d.off, 1)

\* C19: every byte access is preceded by the bounds check, the peek of the
\* status byte after a delta time included: no access goes outside the
\* buffer, and a parse that needs a byte the buffer does not hold fails with
\* the unexpected end of data error and no other.
C19_EveryAccessChecked ==
    /\ [](err # "RangeError")
    /\ [][StatusByteMissing => (pc' = "error" /\ err' = "UnexpectedEOF")]_vars

\* C20: every error of the parse carries the byte offset at which it was
\* detected.
C20_ErrorsCarryOffset ==
    pc = "error" => errAt = offset

----------------------------------------------------------------------------
(* Channel and meta events *)

\* the delta time of an event, as it lies in the buffer
DeltaOf(h) == readVariableLengthQuantity(h.deltaAt).val

\* the event was read from a Note-On status byte followed by velocity 0
ZeroVelocityNoteOn(h) ==
    /\ StatusOf(h) \div 16 = 9
    /\ ByteAt(h.statusAt + 2) = 0

\* the event as a noteOff with velocity 64, channel, note and delta kept
AsNoteOff(h) ==
    [type |-> "channel", subtype |-> "noteOff", delta |-> DeltaOf(h),
     channel |-> StatusOf(h) % 16, note |-> ByteAt(h.statusAt + 1), velocity |-> 64]

\* the event as the noteOn it was written as
AsNoteOn(h) ==
    [type |-> "channel", subtype |-> "noteOn", delta |-> DeltaOf(h),
     channel |-> StatusOf(h) % 16, note |-> ByteAt(h.statusAt + 1), velocity |-> 0]

\* C21, as claimed: the normalisation is off by default; a Note-On with
\* velocity 0 is returned as noteOn with velocity 0 unless the option is
\* explicitly enabled.
C21_NormalizationOffByDefault ==
    \A k \in 1..Len(hist) :
        ZeroVelocityNoteOn(hist[k]) =>
            EventOf(hist[k]) = IF opts = Some(TRUE) THEN AsNoteOff(hist[k])
                               ELSE AsNoteOn(hist[k])

\* C21, amended: the normalisation is on by default; a Note-On with velocity
\* 0 is returned as noteOn with velocity 0 only when the option is explicitly
\* disabled, and as a noteOff record otherwise.
C21_NormalizationOnByDefault ==
    \A k \in 1..Len(hist) :
        ZeroVelocityNoteOn(hist[k]) =>
            EventOf(hist[k]) = IF opts = Some(FALSE) THEN AsNoteOn(hist[k])
                               ELSE AsNoteOff(hist[k])

\* the option was explicitly disabled and the event came back as noteOn
C21_Witness ==
    /\ opts = Some(FALSE)
    /\ \E k \in 1..Len(hist) :
          /\ ZeroVelocityNoteOn(hist[k])
          /\ EventOf(hist[k]).subtype = "noteOn"
          /\ EventOf(hist[k]).velocity = 0

\* C22: with no options given, a Note-On with velocity 0 is returned as a
\* channel event of subtype noteOff with velocity 64 that keeps the channel,
\* the note and the delta of the bytes it was read from.
C22_DefaultNoteOff ==
    opts = Null =>
        \A k \in 1..Len(hist) :
            ZeroVelocityNoteOn(hist[k]) =>
                LET ev == EventOf(hist[k])
                IN  /\ ev.type = "channel"
                    /\ ev.subtype = "noteOff"
                    /\ ev.velocity = 64
                    /\ ev.channel = StatusOf(hist[k]) % 16
                    /\ ev.note = ByteAt(hist[k].statusAt + 1)
                    /\ ev.delta = DeltaOf(hist[k])

\* 05 9F 40 00 parsed with no options: noteOff, channel 15, note 64, delta 5
C22_Witness ==
    /\ opts = Null
    /\ result # Null
    /\ \E k \in 1..Len(hist) :
          /\ StatusOf(hist[k]) = 159
          /\ ZeroVelocityNoteOn(hist[k])
          /\ EventOf(hist[k]) = [type |-> "channel", subtype |-> "noteOff", delta |-> 5,
                                 channel |-> 15, note |-> 64, velocity |-> 64]

SevenBit == 0..127

\* the 7-bit fields of a channel event
SevenBitFields(ev) ==
    { ev[f] : f \in DOMAIN ev \cap
                    (IF ev.subtype = "pitchBend" THEN {}
                     ELSE {"note", "velocity", "pressure", "controller", "value", "program"}) }

\* C23: in every returned file every channel event has its channel in 0..15,
\* its 7-bit fields in 0..127 and a pitchBend value in -8192..8191.
C23_ChannelFieldRanges ==
    result # Null =>
        \A t \in 1..Len(result[1].tracks) :
            \A i \in 1..Len(result[1].tracks[t].events) :
                LET ev == result[1].tracks[t].events[i]
                IN  ev.type = "channel" =>
                        /\ ev.channel \in 0..15
                        /\ SevenBitFields(ev) \subseteq SevenBit
                        /\ ev.subtype = "pitchBend" => ev.value \in (-8192)..8191

\* the data length a sized meta type needs for its convenience field
SizedLength(t) == CASE t = 81 -> 3 [] t = 88 -> 4 [] t = 89 -> 2

ConvenienceField(t) ==
    CASE t = 81 -> "tempoUsPerQuarter" [] t = 88 -> "timeSig" [] t = 89 -> "keySig"

\* the record read a meta event: status 0xFF, then the type
MetaTypeOf(h) == ByteAt(h.statusAt + 1)

\* the loop is about to decode a Set Tempo, Time Signature or Key Signature
\* event that lies whole in the buffer
SizedMetaAhead ==
    /\ pc = "event"
    /\ inTrack(offset, trackEnd)
    /\ LET d == readVariableLengthQuantity(offset)
       IN  /\ d.ok
           /\ ensureAvailable(d.off, 2)
           /\ ByteAt(d.off) = 255
           /\ ByteAt(d.off + 1) \in SizedMetaTypes
           /\ parseMetaEvent(d.off + 1, d.val).ok

\* C24: a meta event of type 0x51, 0x58 or 0x59 is kept in the track with
\* its metaType and data whatever its length, and raises no error; its
\* convenience field (tempoUsPerQuarter, timeSig, keySig) is present exactly
\* when the length is 3, 4 or 2 respectively, and no other of the three is
\* present; the parse goes on with the next event.
C24_WrongLengthMetaKept ==
    /\ [](\A k \in 1..Len(hist) :
            (StatusOf(hist[k]) = 255 /\ MetaTypeOf(hist[k]) \in SizedMetaTypes) =>
                LET ev == EventOf(hist[k])
                    t  == MetaTypeOf(hist[k])
                IN  /\ ev.type = "meta"
                    /\ ev.metaType = t
                    /\ ev.data = PayloadOf([hist[k] EXCEPT !.statusAt = @ + 1])
                    /\ \A u \in SizedMetaTypes :
                          Has(ev, ConvenienceField(u)) <=>
                              (u = t /\ Len(ev.data) = SizedLength(t)))
    /\ [][SizedMetaAhead =>
            /\ pc' = "event"
            /\ err' = "none"
            /\ Len(events') = Len(events) + 1
            /\ offset' = hist'[Len(hist')].endAt]_vars

\* a Set Tempo event with two data bytes was kept without tempoUsPerQuarter
\* and the End of Track after it was decoded
C24_Witness ==
    /\ result # Null
    /\ Len(hist) = 2
    /\ StatusOf(hist[1]) = 255
    /\ MetaTypeOf(hist[1]) = 81
    /\ EventOf(hist[1]).data = <<7, 161>>
    /\ ~Has(EventOf(hist[1]), "tempoUsPerQuarter")
    /\ EndOfTrackEvent(EventOf(hist[2]))

----------------------------------------------------------------------------
(* Tempo map of a document *)

Doc == result[1]

SetMin(S) == CHOOSE m \in S : \A x \in S : m <= x

\* the absolute tick of the i-th event of track t: the sum of the deltas up to it
RECURSIVE AbsTick(_, _)
AbsTick(t, i) == IF i = 0 THEN 0 ELSE AbsTick(t, i - 1) + Doc.tracks[t].events[i].delta

\* the Set Tempo events of the tracks T that carry a tempo other than 0, as
\* <<track, index>> positions
RecordedIn(T) ==
    { p \in T \X (1..MaxTempoEvents + 1) :
        /\ p[2] <= Len(Doc.tracks[p[1]].events)
        /\ LET ev == Doc.tracks[p[1]].events[p[2]]
           IN  /\ ev.type = "meta"
               /\ ev.metaType = 81
               /\ "tempoUsPerQuarter" \in DOMAIN ev
               /\ ev.tempoUsPerQuarter # 0 }

TickOf(p) == AbsTick(p[1], p[2])
TempoOf(p) == Doc.tracks[p[1]].events[p[2]].tempoUsPerQuarter

\* scan order: tracks in document order, events in track order
ScannedBefore(p, q) == p[1] < q[1] \/ (p[1] = q[1] /\ p[2] < q[2])

\* the last event of R in scan order among those at tick x
LastAt(R, x) ==
    CHOOSE p \in R : /\ TickOf(p) = x
                     /\ \A q \in R : TickOf(q) = x /\ q # p => ScannedBefore(q, p)

AllTracks == 1..Len(Doc.tracks)
FirstTrack == IF Len(Doc.tracks) > 0 THEN {1} ELSE {}

\* the argument the call was made with, "none" for a call without one
SourceGiven == IF source = Null THEN "none" ELSE source[1]

\* the tracks the call scans
Scanned ==
    IF Doc.format = 0 THEN AllTracks
    ELSE IF Doc.format = 2 THEN FirstTrack
    ELSE IF SourceGiven = "track0" THEN FirstTrack ELSE AllTracks

\* the ascending sequence of the elements of a set of ticks
RECURSIVE Ascending(_)
Ascending(S) == IF S = {} THEN <<>> ELSE <<SetMin(S)>> \o Ascending(S \ {SetMin(S)})

\* the tempo map of a set of recorded events: one point per tick, the value
\* of the last event at that tick, and the default at tick 0 when none is there
MapOfRecorded(R) ==
    LET ticks == Ascending({0} \cup { TickOf(p) : p \in R })
    IN  [i \in 1..Len(ticks) |->
            [tick |-> ticks[i],
             usPerQuarter |-> IF \E p \in R : TickOf(p) = ticks[i]
                              THEN TempoOf(LastAt(R, ticks[i]))
                              ELSE 500000]]

\* C25: the tempo map is never empty, its first entry is at tick 0, its
\* ticks are strictly increasing, its values are positive, and the entry at
\* tick 0 is the default (0, 500000) when no tempo event was recorded at tick
\* 0 and the recorded tempo otherwise.
C25_TempoMapShape ==
    tempoMap # Null =>
        LET m == tempoMap[1]
            R == RecordedIn(Scanned)
        IN  /\ Len(m) >= 1
            /\ m[1].tick = 0
            /\ \A i \in 1..(Len(m) - 1) : m[i].tick < m[i + 1].tick
            /\ \A i \in 1..Len(m) : m[i].usPerQuarter > 0
            /\ IF \E p \in R : TickOf(p) = 0
               THEN m[1].usPerQuarter = TempoOf(LastAt(R, 0))
               ELSE m[1] = [tick |-> 0, usPerQuarter |-> 500000]

\* the first recorded tempo lies at tick 480: the default was put in front
C25_Witness ==
    /\ tempoMap # Null
    /\ RecordedIn(Scanned) # {}
    /\ \A p \in RecordedIn(Scanned) : TickOf(p) > 0
    /\ tempoMap[1] = <<[tick |-> 0, usPerQuarter |-> 500000],
                       [tick |-> 480, usPerQuarter |-> 400000]>>

\* C26: when several recorded tempo events fall on the same tick, the map
\* has a single entry for that tick, with the value of the last of them in
\* scan order.
C26_LastTempoAtTickWins ==
    tempoMap # Null =>
        LET m == tempoMap[1]
            R == RecordedIn(Scanned)
        IN  \A p \in R : \A q \in R :
                (p # q /\ TickOf(p) = TickOf(q)) =>
                    /\ Cardinality({ i \in 1..Len(m) : m[i].tick = TickOf(p) }) = 1
                    /\ \A i \in 1..Len(m) :
                          m[i].tick = TickOf(p) =>
                              m[i].usPerQuarter = TempoOf(LastAt(R, TickOf(p)))

\* two tempo events at tick 0, 500000 first and 400000 second, in two tracks
C26_Witness ==
    /\ tempoMap # Null
    /\ Len(Doc.tracks) = 2
    /\ <<1, 1>> \in RecordedIn(Scanned) /\ TickOf(<<1, 1>>) = 0 /\ TempoOf(<<1, 1>>) = 500000
    /\ <<2, 1>> \in RecordedIn(Scanned) /\ TickOf(<<2, 1>>) = 0 /\ TempoOf(<<2, 1>>) = 400000
    /\ tempoMap[1][1] = [tick |-> 0, usPerQuarter |-> 400000]

\* C27, as claimed: called without a source, buildTempoMap scans all tracks
\* of a format-0 document and only track 0 of a format-1 or format-2 document.
C27_DefaultFollowsFormat ==
    (tempoMap # Null /\ source = Null) =>
        tempoMap[1] = MapOfRecorded(RecordedIn(IF Doc.format = 0 THEN AllTracks
                                               ELSE FirstTrack))

\* C27, amended: called without a source, buildTempoMap scans all tracks of
\* a format-0 document, all tracks of a format-1 document and only track 0
\* of a format-2 document.
C27_DefaultScansAllButFormat2 ==
    (tempoMap # Null /\ source = Null) =>
        tempoMap[1] = MapOfRecorded(RecordedIn(IF Doc.format = 2 THEN FirstTrack
                                               ELSE AllTracks))

\* a format-2 document with a tempo event in its second track only, mapped
\* without a source: the event is not in the map
C27_Witness ==
    /\ tempoMap # Null
    /\ source = Null
    /\ Doc.format = 2
    /\ Len(Doc.tracks) = 2
    /\ RecordedIn({1}) = {}
    /\ RecordedIn(AllTracks) # {}
    /\ tempoMap[1] = <<[tick |-> 0, usPerQuarter |-> 500000]>>

\* C28: for a format-1 document mapped without a source, the tempo events of
\* every track are collected: each of them has its tick in the map, and the
\* map is the one of the events of all tracks taken together.
C28_Format1DefaultAllTracks ==
    (tempoMap # Null /\ source = Null /\ Doc.format = 1) =>
        /\ \A p \in RecordedIn(AllTracks) :
              \E i \in 1..Len(tempoMap[1]) : tempoMap[1][i].tick = TickOf(p)
        /\ tempoMap[1] = MapOfRecorded(RecordedIn(AllTracks))

\* track 0 holds a tempo at tick 0 and track 1 one at tick 480: both are there
C28_Witness ==
    /\ tempoMap # Null
    /\ source = Null
    /\ Doc.format = 1
    /\ Len(Doc.tracks) = 2
    /\ RecordedIn({1}) = {<<1, 1>>}
    /\ TickOf(<<1, 1>>) = 0
    /\ \E p \in RecordedIn({2}) : TickOf(p) = 480
    /\ Len(tempoMap[1]) = 2
    /\ tempoMap[1][2].tick = 480

\* C29: for every format, source 'track0' makes the map out of the tempo
\* events of the first track only, and 'all' or 'merge' out of those of
\* every track.
C29_SourceSelectsTracks ==
    (tempoMap # Null /\ source # Null) =>
        tempoMap[1] = MapOfRecorded(RecordedIn(IF source[1] = "track0" THEN FirstTrack
                                               ELSE AllTracks))

----------------------------------------------------------------------------
(* Elapsed time *)

\* the ticks of [a, b) that lie in [0, t)
TicksWithin(a, b, t) == Max(0, Min(b, t) - Max(a, 0))

\* the sum, over the points from the i-th on, of the ticks between a point
\* and the next one (the last one reaching to t) times the tempo of the point
RECURSIVE ChargedFrom(_, _, _)
ChargedFrom(m, t, i) ==
    IF i > Len(m) THEN 0
    ELSE TicksWithin(m[i].tick, IF i < Len(m) THEN m[i + 1].tick ELSE t, t)
             * m[i].usPerQuarter
         + ChargedFrom(m, t, i + 1)

\* C30: for ppq > 0, a non-empty tempo map sorted by tick and a target tick
\* T, ticksToMs returns the sum over the points of the ticks of [point.tick,
\* next point's tick) that lie in [0, T), the last point reaching to T, times
\* point.usPerQuarter / (ppq * 1000); both sides are compared as numerators
\* over ppq * 1000.
C30_TicksToMs ==
    (pc # "ticks" /\ ppq > 0 /\ tempoMap[1] # <<>>) =>
        /\ pc = "done"
        /\ totalMs = Some(ChargedFrom(tempoMap[1], tick, 1))

\* map [(0, 500000), (480, 400000)], ppq 480, T = 960: 900 ms
C30_Witness ==
    /\ pc = "done"
    /\ tempoMap = Some(<<[tick |-> 0, usPerQuarter |-> 500000],
                         [tick |-> 480, usPerQuarter |-> 400000]>>)
    /\ ppq = 480
    /\ tick = 960
    /\ totalMs = Some(900 * (480 * 1000))

----------------------------------------------------------------------------
(* Failures of ticksToMs *)

\* the call of ticksToMs has ended
TicksCallEnded == pc \in {"done", "error"} /\ tempoMap # Null /\ result = Null

\* C31 as stated: ticksToMs fails with the empty-tempo-map error whenever
\* the tempo map has no entries and with the invalid-PPQ error whenever
\* ppq <= 0, for every tick, and returns no number.
C31_EachErrorOnItsCondition ==
    TicksCallEnded =>
        /\ tempoMap[1] = <<>> => (pc = "error" /\ err = "EmptyTempoMap" /\ totalMs = Null)
        /\ ppq <= 0 => (pc = "error" /\ err = "InvalidPpq" /\ totalMs = Null)

\* C31: for every tick, ticksToMs fails with the invalid-PPQ error when
\* ppq <= 0, whatever the tempo map, and with the empty-tempo-map error
\* when ppq > 0 and the tempo map has no entries; it returns no number in
\* either case, and these are its only failures.
C31_PpqCheckedBeforeMap ==
    TicksCallEnded =>
        /\ ppq <= 0 => (pc = "error" /\ err = "InvalidPpq" /\ totalMs = Null)
        /\ (ppq > 0 /\ tempoMap[1] = <<>>) =>
               (pc = "error" /\ err = "EmptyTempoMap" /\ totalMs = Null)
        /\ (ppq > 0 /\ tempoMap[1] # <<>>) => (pc = "done" /\ totalMs # Null)

\* tick 0, no tempo point and ppq 0: the invalid-PPQ error
C31_Witness ==
    /\ TicksCallEnded
    /\ tick = 0
    /\ tempoMap = Some(<<>>)
    /\ ppq = 0
    /\ err = "InvalidPpq"
    /\ totalMs = Null

----------------------------------------------------------------------------
(* Repeated parsing *)

\* the second call of parseMidi on the same input has returned or thrown
SecondCallEnded == previous # Null /\ pc \in {"done", "error"}

----------------------------------------------------------------------------
(* Bytes consumed by a track *)

\* the number of bytes of the VLQ that starts at offset o
RECURSIVE VlqLength(_)
VlqLength(o) == IF ByteAt(o) < 128 THEN 1 ELSE 1 + VlqLength(o + 1)

\* the offset behind the delta time of an event
BehindDelta(h) == h.deltaAt + VlqLength(h.deltaAt)

\* 1 when the event has a status byte of its own, 0 under running status
StatusSize(h) == IF ByteAt(BehindDelta(h)) >= 128 THEN 1 ELSE 0

\* the bytes behind the status byte that belong to the event: the data bytes
\* of a channel message; type byte, length and data of a meta event; length
\* and payload of a SysEx event
PayloadSize(h) ==
    LET ev == EventOf(h)
        o  == BehindDelta(h) + StatusSize(h)
    IN  CASE ev.type = "channel" ->
                 IF ev.subtype \in {"programChange", "channelPressure"} THEN 1 ELSE 2
          [] ev.type = "meta" -> 1 + VlqLength(o + 1) + Len(ev.data)
          [] ev.type = "sysex" ->
                 VlqLength(o) + GroupsValue(SubSeq(buf, o + 1, o + VlqLength(o)))

ConsumedBy(h) == VlqLength(h.deltaAt) + StatusSize(h) + PayloadSize(h)

\* the bytes consumed by the events of track t among the first k records
RECURSIVE ConsumedIn(_, _)
ConsumedIn(t, k) ==
    IF k = 0 THEN 0
    ELSE (IF hist[k].track = t THEN ConsumedBy(hist[k]) ELSE 0) + ConsumedIn(t, k - 1)

RecordsOf(t) == { k \in 1..Len(hist) : hist[k].track = t }

\* track t is finished, its last event is End of Track and that event ends
\* where the declared length ends
EndsExactlyAtEndOfTrack(t) ==
    /\ t <= Len(tracks)
    /\ RecordsOf(t) # {}
    /\ LET last == hist[SetMax(RecordsOf(t))]
       IN  /\ EndOfTrackEvent(EventOf(last))
           /\ last.endAt = DeclaredEnd(t)

\* C33: when a track ends with an End-of-Track event that ends exactly at
\* the declared length, the delta VLQs, status bytes and payloads of its
\* events add up to the declared track length, and the cursor stands at
\* the declared chunk end when the track has finished.
C33_ConsumedEqualsDeclared ==
    \A t \in 1..Len(tracks) :
        EndsExactlyAtEndOfTrack(t) =>
            /\ ConsumedIn(t, Len(hist)) = chunks[t].length
            /\ (pc = "track" /\ Len(tracks) = t) => offset = DeclaredEnd(t)

\* a finished track of three events or more, one under running status
C33_Witness ==
    /\ pc = "done"
    /\ \E t \in 1..Len(tracks) :
          /\ EndsExactlyAtEndOfTrack(t)
          /\ Cardinality(RecordsOf(t)) >= 3
          /\ \E k \in RecordsOf(t) : IsRunning(hist[k])
          /\ ConsumedIn(t, Len(hist)) = chunks[t].length

----------------------------------------------------------------------------
(* Where the next chunk is read *)

\* a track has finished and parse() will call parseTrack() again
NextChunkAhead ==
    /\ pc = "track"
    /\ Len(tracks) >= 1
    /\ moreTracks(Len(tracks), numTracks)

\* C34: after a track has finished, by End of Track or by its declared
\* length, the tag of the next chunk is read at the declared end of that
\* track's chunk, so bytes of the declared length that follow an
\* End-of-Track event are skipped.
C34_NextChunkAtDeclaredEnd ==
    NextChunkAhead => offset = DeclaredEnd(Len(tracks))

----------------------------------------------------------------------------
(* Termination *)

ParseEnded == pc \in {"done", "error"}

\* C35: every parse ends, with a document or with an error; the cursor
\* never moves back and never lies beyond the end of the buffer, and every
\* pass of the event loop that yields an event moves it forward by at
\* least one byte.
C35_Terminates ==
    /\ <>ParseEnded
    /\ [](pc = "done" => (result # Null /\ err = "none"))
    /\ [](pc = "error" => (result = Null /\ err # "none"))
    /\ [](offset <= Len(buf))
    /\ [][offset' >= offset]_vars
    /\ [][Len(hist') > Len(hist) => offset' > offset]_vars

\* a parse that returned a document after consuming the whole buffer,
\* several events among it
C35_Witness ==
    /\ pc = "done"
    /\ previous = Null
    /\ result # Null
    /\ offset = Len(buf)
    /\ Len(hist) >= 3

----------------------------------------------------------------------------
(* What normalisation leaves alone *)

\* the status byte the k-th event was decoded with: its own, or under
\* running status the latest channel status read before it in its track
EffectiveStatus(k) ==
    IF IsRunning(hist[k]) THEN LatestChannelStatus(k) ELSE StatusOf(hist[k])

\* the offset of the first data byte of an event
DataAt(h) == IF IsRunning(h) THEN h.statusAt ELSE h.statusAt + 1

\* a note event of status byte s with the data bytes of h, the velocity given
NoteEvent(subtype, s, h, velocity) ==
    [type |-> "channel", subtype |-> subtype, delta |-> DeltaOf(h),
     channel |-> s % 16, note |-> ByteAt(DataAt(h)), velocity |-> velocity]

\* the option is given as true or not given
NormalizationInEffect == opts = Null \/ opts = Some(TRUE)

\* the k-th event is a Note-On with velocity byte 0 returned as noteOff
Normalized(k) ==
    /\ EffectiveStatus(k) \div 16 = 9
    /\ ByteAt(DataAt(hist[k]) + 1) = 0
    /\ EventOf(hist[k]).subtype = "noteOff"

\* C36: returning a zero-velocity Note-On as noteOff changes the returned
\* record only. While a track is parsed the running status is the latest
\* channel status byte read in it, also after a normalised event, so an
\* event under a 0x9n running status is a Note-On, normalised only when its
\* own velocity is 0; events of a 0x8n status, with velocity 0 too, and
\* Note-On events with velocity > 0 are returned with their bytes as read.
C36_NormalizationFrame ==
    /\ (pc = "event" /\ ChannelStatusInCurrentTrack # {}) =>
           runningStatus =
               Some(ByteAt(hist[SetMax(ChannelStatusInCurrentTrack)].statusAt))
    /\ \A k \in 1..Len(hist) :
           LET h   == hist[k]
               s   == EffectiveStatus(k)
               vel == ByteAt(DataAt(h) + 1)
           IN  /\ s \div 16 = 8 => EventOf(h) = NoteEvent("noteOff", s, h, vel)
               /\ (s \div 16 = 9 /\ vel > 0) => EventOf(h) = NoteEvent("noteOn", s, h, vel)
               /\ (s \div 16 = 9 /\ vel = 0) =>
                      EventOf(h) = IF NormalizationInEffect
                                   THEN NoteEvent("noteOff", s, h, 64)
                                   ELSE NoteEvent("noteOn", s, h, 0)

\* a normalised Note-On, then under running status a Note-On with velocity
\* 96 and a Note-On with velocity 0 that is normalised again
C36_Witness ==
    /\ pc = "done"
    /\ Len(hist) >= 3
    /\ ~IsRunning(hist[1]) /\ Normalized(1)
    /\ IsRunning(hist[2]) /\ EventOf(hist[2]).subtype = "noteOn"
    /\ EventOf(hist[2]).velocity = 96
    /\ IsRunning(hist[3]) /\ Normalized(3)

----------------------------------------------------------------------------
(* Ticks of the tempo points *)

\* the sum of the deltas of the first i events of a track
RECURSIVE SumOfDeltas(_, _)
SumOfDeltas(evs, i) == IF i = 0 THEN 0 ELSE SumOfDeltas(evs, i - 1) + evs[i].delta

IsSetTempo(ev) == ev.type = "meta" /\ ev.metaType = 81

\* a Set Tempo event with a tempo: the field is there and is not 0
HasTempo(ev) ==
    /\ IsSetTempo(ev)
    /\ "tempoUsPerQuarter" \in DOMAIN ev
    /\ ev.tempoUsPerQuarter # 0

\* the positions <<track, index>> of the events with a tempo in the scanned tracks
TempoPositions ==
    { p \in UNION { {t} \X (1..Len(Doc.tracks[t].events)) : t \in Scanned } :
          HasTempo(Doc.tracks[p[1]].events[p[2]]) }

SumAt(p) == SumOfDeltas(Doc.tracks[p[1]].events, p[2])

\* C37: every tempo event is recorded at the sum of the deltas of all events
\* of its track up to and including itself, counted from 0 in each track;
\* a 0x51 event without a tempo or with tempo 0 gives no point of its own,
\* and its delta counts like that of any other event.
C37_RecordedAtRunningSum ==
    tempoMap # Null =>
        LET m == tempoMap[1]
        IN  /\ { m[i].tick : i \in 1..Len(m) } = {0} \cup { SumAt(p) : p \in TempoPositions }
            /\ \A p \in TempoPositions :
                   \E i \in 1..Len(m) :
                       /\ m[i].tick = SumAt(p)
                       /\ \E q \in TempoPositions :
                              /\ SumAt(q) = SumAt(p)
                              /\ m[i].usPerQuarter =
                                     Doc.tracks[q[1]].events[q[2]].tempoUsPerQuarter

\* first track: Note-On (240), 0x51 without tempo (60), Set Tempo (480) at
\* tick 780; second track: Note-On (240), Set Tempo (240) at tick 480
C37_Witness ==
    /\ tempoMap # Null
    /\ Len(Doc.tracks) = 2
    /\ Len(Doc.tracks[1].events) = 3
    /\ Doc.tracks[1].events[1].type = "channel"
    /\ IsSetTempo(Doc.tracks[1].events[2]) /\ ~HasTempo(Doc.tracks[1].events[2])
    /\ tempoMap[1] = <<[tick |-> 0, usPerQuarter |-> 500000],
                       [tick |-> 480, usPerQuarter |-> 300000],
                       [tick |-> 780, usPerQuarter |-> 600000]>>

----------------------------------------------------------------------------
(* Time signature *)

\* the number of times n can be halved before it reaches 1
RECURSIVE HalvingsOf(_)
HalvingsOf(n) == IF n <= 1 THEN 0 ELSE 1 + HalvingsOf(n \div 2)

\* den is 2 to the power e, for e in 0..255, without computing powers that
\* exceed the integers at hand
IsTwoToThe(den, e) ==
    /\ den > 0
    /\ HalvingsOf(den) = e
    /\ e <= 30 => den = 2 ^ e

\* C38: for a 0x58 meta event of length 4, timeSig.den is 2 to the power
\* data[1], a positive power of two for every exponent byte, and num,
\* metronome and thirtyseconds are data[0], data[2] and data[3].
C38_TimeSignatureFields ==
    \A k \in 1..Len(hist) :
        LET ev == EventOf(hist[k])
        IN  (StatusOf(hist[k]) = 255 /\ MetaTypeOf(hist[k]) = 88 /\ Len(ev.data) = 4) =>
                /\ Has(ev, "timeSig")
                /\ ev.timeSig.num = ev.data[1]
                /\ IsTwoToThe(ev.timeSig.den, ev.data[2])
                /\ ev.timeSig.metronome = ev.data[3]
                /\ ev.timeSig.thirtyseconds = ev.data[4]

----------------------------------------------------------------------------
(* Elapsed time as a function of the tick *)

\* what ticksToMs returns for tick t with the tempo map and ppq of the call,
\* as a numerator over ppq * 1000
ElapsedAt(t) == ticksToMs_PPQ(t, tempoMap[1], ppq).val

\* t lies in the segment of the i-th point: from its tick up to the tick of
\* the next point, the last point having no end
InSegment(i, t) ==
    /\ tempoMap[1][i].tick <= t
    /\ i < Len(tempoMap[1]) => t < tempoMap[1][i + 1].tick

\* C39: for ppq > 0 and a tempo map sorted by tick with positive tempos,
\* ticksToMs is 0 for every tick <= 0, it does not decrease when the tick
\* grows, and for t1 <= t2 in the segment of the same point the results
\* differ by (t2 - t1) * usPerQuarter / (ppq * 1000) of that point; the
\* results are compared as numerators over ppq * 1000.
C39_MonotoneAndLinear ==
    (pc = "done" /\ totalMs # Null) =>
        /\ tick <= 0 => totalMs[1] = 0
        /\ \A t1 \in TargetTicks :
               t1 <= tick =>
                   /\ ElapsedAt(t1) <= totalMs[1]
                   /\ \A i \in 1..Len(tempoMap[1]) :
                          (InSegment(i, t1) /\ InSegment(i, tick)) =>
                              totalMs[1] - ElapsedAt(t1) =
                                  (tick - t1) * tempoMap[1][i].usPerQuarter

\* map [(0, 500000), (480, 400000)], ppq 480: ticks 480 and 481 lie in the
\* segment of the second point and differ by one tick at 400000
C39_Witness ==
    /\ pc = "done"
    /\ tempoMap = Some(<<[tick |-> 0, usPerQuarter |-> 500000],
                         [tick |-> 480, usPerQuarter |-> 400000]>>)
    /\ ppq = 480
    /\ tick = 481
    /\ InSegment(2, 480) /\ InSegment(2, tick)
    /\ totalMs[1] - ElapsedAt(480) = 400000

----------------------------------------------------------------------------
(* Inputs of the timing functions *)

====
